---- MODULE Spec2Model ----
(***************************************************************************)
(* Model of HeartbeatManager (heartbeat.ts, latest revision) of the Ziit   *)
(* VS Code extension: heartbeat delivery, the offline queue and its        *)
(* flush, the daily-summary reconciliation and the status-bar total.       *)
(*                                                                         *)
(* The extension runs on one cooperative event loop.  Every action below   *)
(* is one run-to-completion step of a handler: from a callback or an       *)
(* await continuation to the next await.  Requests in flight are state.    *)
(***************************************************************************)
EXTENDS Integers, Sequences, FiniteSets, TLC

(* ---------------------------- bounds ---------------------------------- *)
\* heartbeats constructed in one run (ids 1..MaxHeartbeats)
MaxHeartbeats == 3
\* syncOfflineHeartbeats invocations suspended at one await at a time
MaxSync == 1
\* fetchDailySummary requests in flight at a time
MaxFetch == 1
\* cap of unsyncedLocalSeconds, in accumulator ticks of TickSeconds
MaxTicks == 1

(* ------------------------ program constants --------------------------- *)
\* the accumulator interval: setInterval(..., 5000)
TickSeconds == 5
\* the batch size, slice(0, 1000), scaled down so that a run of
\* MaxHeartbeats heartbeats fills more than one batch
BatchSize == 2
SecondsPerHour == 3600
SecondsPerMinute == 60
\* heartbeatInterval, 120000 ms, scaled down to two accumulator ticks
HeartbeatInterval == 10
\* userInactivityThresholdMilliseconds, 15 * 60 * 1000 ms, scaled down to
\* three accumulator ticks
InactivityThreshold == 15
\* the clock stops this many seconds after the start
MaxElapsed == 15
\* sendHeartbeat calls suspended between the gate and the construction
MaxSendAtProject == 1
\* sendHeartbeat calls suspended at once where calls overlap (DocSpec)
MaxOverlap == 2
\* stats requests issued in a run where they are told apart (FetchSpec)
MaxFetchIssued == 4
\* cap of the flushes suspended at one await at a time in CascadeSpec
MaxCascade == 2
\* the documents an editor can show
Files == {1, 2}
\* Date.now() at construction: lastHeartbeat starts at 0, a time more than
\* heartbeatInterval in the past
StartTime == HeartbeatInterval

HbIds == 1..MaxHeartbeats
\* totalSeconds values the stats endpoint may report for today
ServerTotals == {3658}
\* how a request ends: 2xx, 401, another status, or a transport error
Outcomes == {"ok", "unauthorized", "status", "transport"}
\* every way in which a request can fail (badjson: a 2xx stats body that
\* does not parse)
AllFaults == {"unauthorized", "status", "transport", "badjson"}

VARIABLES
  offlineHeartbeats,      \* this.offlineHeartbeats: the in-memory queue
  queueFile,              \* content of offline_heartbeats.json
  isOnline,               \* this.isOnline
  hasValidApiKey,         \* this.hasValidApiKey
  sbIsOnline,             \* StatusBarManager.isOnline
  sbHasValidApiKey,       \* StatusBarManager.hasValidApiKey
  unsyncedLocalSeconds,   \* this.unsyncedLocalSeconds
  todayLocalTotalSeconds, \* this.todayLocalTotalSeconds
  sbTotalSeconds,         \* StatusBarManager.totalSeconds
  nextHb,                 \* id of the next heartbeat to be constructed
  inflightOne,            \* heartbeats of single POSTs awaiting a response
  syncAtLog,              \* flushes suspended at `await getBaseUrl()` (log)
  syncAtCfg,              \* flushes past the guard, awaiting key and url
  batches,                \* batch POSTs awaiting a response
  fetchInFlight,          \* stats GETs awaiting a response
  accepted,               \* heartbeats the single endpoint answered 2xx for
  batchLog,               \* heartbeats the batch endpoint answered 2xx for
  enqLog,                 \* history: heartbeats in the order of their push
  serverHealthy,          \* TRUE once the server answers 2xx from now on
  faults,                 \* the ways in which the server fails in this run
  now,                    \* Date.now(), in seconds
  lastActivity,           \* this.lastActivity
  lastTimeAccumulated,    \* this.lastTimeAccumulated
  isWindowFocused,        \* this.isWindowFocused
  lastHeartbeat,          \* this.lastHeartbeat
  lastFile,               \* this.lastFile (0: "")
  activeEditor,           \* file of vscode.window.activeTextEditor (0: none)
  activeDocumentInfo,     \* file of this.activeDocumentInfo (0: null)
  sendAtProject,          \* sendHeartbeat calls past the gate, awaiting the
                          \* project name, the key, the url and the branch
  sendDocs,               \* the document of the editor each of these calls
                          \* read at its head (activeEditor at 496)
  sbIsTracking,           \* StatusBarManager.isTracking
  enabled,                \* the setting ziit.enabled
  apiKey,                 \* TRUE when getApiKey() yields a key
  gapSeconds,             \* history: seconds the accumulator added since the
                          \* last interaction
  focusedSinceTick,       \* history: the window had the focus for some of the
                          \* time since the accumulator's last tick
  fileContent,            \* what offline_heartbeats.json held when the
                          \* constructor read it
  threw,                  \* history: an operation ended with an exception
                          \* that nothing catches
  disk,                   \* the queue files the constructor deals with: the
                          \* file at the legacy path, and the file at the
                          \* new path until the constructor has run (phase
                          \* "start"); from then on (phase "done")
                          \* queueFile stands for the file at the new path
  statusBar,              \* a StatusBarManager under any caller: its
                          \* totalSeconds, trackingStartTime, isTracking,
                          \* and the time of the last updateTime call
                          \* (updatedAt, history)
  fetchSeq,               \* history: the stats GETs told apart: how many
                          \* were issued, which await a response, and
                          \* which one todayLocalTotalSeconds came from,
                          \* and when the adopted response reset
                          \* unsyncedLocalSeconds (resetAt; kept by
                          \* FetchIssued and FetchAnswered)
  timestamps              \* history: heartbeat.timestamp of the heartbeats
                          \* this instance constructed, in the order of
                          \* their construction (recorded by
                          \* SendResumeStamped)

vars == <<offlineHeartbeats, queueFile, isOnline, hasValidApiKey, sbIsOnline, sbHasValidApiKey,
          unsyncedLocalSeconds, todayLocalTotalSeconds, sbTotalSeconds,
          nextHb, inflightOne, syncAtLog, syncAtCfg, batches, fetchInFlight,
          accepted, batchLog, enqLog, serverHealthy, faults,
          now, lastActivity, lastTimeAccumulated, isWindowFocused,
          lastHeartbeat, lastFile, activeEditor, activeDocumentInfo,
          sendAtProject, sendDocs, sbIsTracking, enabled, apiKey, gapSeconds, focusedSinceTick,
          fileContent, threw, timestamps, fetchSeq, statusBar, disk>>

\* the state of the trigger layer: clock, activity, focus, the gate of
\* sendHeartbeat, the status bar's tracking flag and the configuration
trigVars == <<now, lastActivity, lastTimeAccumulated, isWindowFocused,
              lastHeartbeat, lastFile, activeEditor, activeDocumentInfo,
              sendAtProject, sendDocs, sbIsTracking, enabled, apiKey, gapSeconds, focusedSinceTick,
              fileContent, timestamps, fetchSeq, statusBar, disk>>

(* ----------------------------- helpers -------------------------------- *)
Min(a, b) == IF a < b THEN a ELSE b

Range(s) == {s[i] : i \in 1..Len(s)}

\* position of h in the sequence s (0 when absent)
Pos(s, h) == IF h \in Range(s) THEN CHOOSE i \in 1..Len(s) : s[i] = h ELSE 0

\* the sequence s without its i-th element
RemoveAt(s, i) == SubSeq(s, 1, i - 1) \o SubSeq(s, i + 1, Len(s))

\* mutant: the whole queue goes into one request
BatchOfWholeQueue(q) == q

\* Array.prototype.slice(0, BatchSize)
BatchOf(q) == SubSeq(q, 1, Min(BatchSize, Len(q)))

\* mutant: the batch taken is left in the queue
RestOfKeepsBatch(q) == q

\* Array.prototype.slice(BatchSize)
RestOf(q) == SubSeq(q, Min(BatchSize, Len(q)) + 1, Len(q))

\* what StatusBarManager.updateTime stores for a total of t seconds:
\* hours = floor(t / 3600), minutes = floor((t % 3600) / 60)
UpdateTime(t) ==
  (t \div SecondsPerHour) * SecondsPerHour
    + ((t % SecondsPerHour) \div SecondsPerMinute) * SecondsPerMinute

\* mutant: the status bar is never told
NotifiedNever(sb, old, new) == sb

\* the status bar's flag after setOnlineStatus(new) / setApiKeyStatus(new)
\* of the manager, whose flag is old: the status bar is told of a change
\* only
Notified(sb, old, new) == IF old # new THEN new ELSE sb

\* mutant: a change of isOnline starts no flush
FlushSpawnedNever(v) == 0

\* setOnlineStatus(v) starts a flush exactly when the flag changes
FlushSpawned(v) == IF isOnline # v THEN 1 ELSE 0

\* outcomes the server can produce now
Possible == IF serverHealthy THEN {"ok"} ELSE {"ok"} \cup (faults \cap Outcomes)

\* mutant: a 401 is handled like any other failure
IsKeyErrorNever(outcome) == FALSE

\* mutant: every failure is taken for a bad key
IsKeyErrorAlways(outcome) == TRUE

\* catch of sendHeartbeat / syncOfflineHeartbeats:
\* error.message.includes("API key")
IsKeyError(outcome) == outcome = "unauthorized"

(* ------------------------ loadOfflineHeartbeats ----------------------- *)
\* what the constructor can find in offline_heartbeats.json: a list of
\* heartbeats, a file that cannot be read, text that is not JSON, and JSON
\* that is an object and not an array
FileContents == {"list", "unreadable", "unparseable", "object"}

\* loadOfflineHeartbeats: the kind of value this.offlineHeartbeats holds
\* after it.  readFileSync or JSON.parse throwing leads to the catch block
\* and []; whatever JSON.parse returns is assigned as it is.
LoadOfflineHeartbeats(content) ==
  CASE content = "list" -> "array"
    [] content \in {"unreadable", "unparseable"} -> "empty"
    [] content = "object" -> "object"

\* this.offlineHeartbeats is an array.  No statement that a non-array
\* reaches assigns the field again: map (the flush) throws before its
\* assignment and push throws.
QueueIsArray == LoadOfflineHeartbeats(fileContent) # "object"

(* --------------------------- queue files ------------------------------ *)
\* no file at the path
Absent == [exists |-> FALSE, hbs |-> <<>>]

\* a file holding the JSON list of the heartbeats q
Holds(q) == [exists |-> TRUE, hbs |-> q]

(* ------------------------------ Init ---------------------------------- *)
\* State after the constructor: loadOfflineHeartbeats() read the file (a
\* previous session may have left entries), initialize() called
\* syncOfflineHeartbeats(), which is suspended at its first await.
Started(n) ==
  /\ offlineHeartbeats = [i \in 1..n |-> i]
  /\ queueFile = [i \in 1..n |-> i]
  /\ enqLog = [i \in 1..n |-> i]
  /\ nextHb = n + 1
  /\ isOnline = TRUE
  /\ sbIsOnline = TRUE
  /\ hasValidApiKey = TRUE
  /\ sbHasValidApiKey = TRUE
  /\ unsyncedLocalSeconds = 0
  /\ todayLocalTotalSeconds = 0
  /\ sbTotalSeconds = 0
  /\ inflightOne = {}
  /\ syncAtLog = 1
  /\ syncAtCfg = 0
  /\ batches = {}
  /\ fetchInFlight = 0
  /\ accepted = {}
  /\ batchLog = <<>>
  /\ serverHealthy = FALSE
  /\ now = StartTime
  /\ lastActivity = StartTime
  /\ lastTimeAccumulated = StartTime
  /\ lastHeartbeat = 0
  /\ lastFile = 0
  /\ activeEditor = 0
  /\ activeDocumentInfo = 0
  /\ sendAtProject = 0
  /\ sendDocs = <<>>
  /\ fetchSeq = [issued |-> 0, pending |-> {}, adopted |-> 0,
                 resetAt |-> StartTime]
  /\ disk = [phase |-> "done", legacy |-> Absent, config |-> Absent]
  /\ statusBar = [totalSeconds |-> 0, trackingStartTime |-> 0,
                  isTracking |-> FALSE, updatedAt |-> StartTime]
  /\ sbIsTracking = FALSE
  /\ gapSeconds = 0
  /\ focusedSinceTick = FALSE
  /\ timestamps = <<>>

\* the window is focused, tracking is enabled and an API key is configured
Foreground == isWindowFocused = TRUE /\ enabled = TRUE /\ apiKey = TRUE

\* the file held a list of heartbeats (or did not exist) and nothing threw
LoadedList == fileContent = "list" /\ threw = FALSE

\* a start with any failure possible; one entry may be left in the file
Init == (\E n \in 0..1 : Started(n)) /\ faults = AllFaults /\ Foreground /\ LoadedList

\* a fresh start against a server whose only failure is the 401
Init401 == Started(0) /\ faults = {"unauthorized"} /\ Foreground /\ LoadedList

\* a start against a server that fails with a status or a transport error
InitTransient ==
  (\E n \in 0..1 : Started(n)) /\ faults = {"status", "transport"}
    /\ Foreground /\ LoadedList

(* ------------------------ common effects ------------------------------ *)
\* fetchDailySummary() is started.  Its request joins the ones in flight;
\* beyond MaxFetch it is merged with one in flight (the timer can issue a
\* request at any moment, so every sequence of responses stays possible).
\* Without an API key fetchDailySummary returns before its request.
FetchStarted == IF apiKey THEN Min(fetchInFlight + 1, MaxFetch) ELSE fetchInFlight

\* mutant: the file is written without the queue's entries
SavedEmpty(q) == <<>>

\* saveOfflineHeartbeats(): the file gets the queue as it is now
Saved(q) == q

\* one pass of the while loop's head in syncOfflineHeartbeats, for a flush
\* that is running (not suspended): take the next batch and send it, or
\* leave the loop; a flush that leaves the loop with an empty queue starts
\* fetchDailySummary.  q is the queue, b the in-flight batches and log
\* the acknowledged heartbeats then.  History kept with a batch: the
\* length of the queue it was taken from (lenBefore), and whether it holds
\* a heartbeat enqueued before one that is acknowledged already (late).
LoopHead(q, b, log) ==
  IF Len(q) > 0
  THEN /\ offlineHeartbeats' = RestOf(q)
       /\ batches' = b \cup
            {[hbs |-> BatchOf(q),
              lenBefore |-> Len(q),
              late |-> \E a \in Range(BatchOf(q)), x \in Range(log) :
                         Pos(enqLog, a) < Pos(enqLog, x)]}
       /\ fetchInFlight' = fetchInFlight
  ELSE /\ offlineHeartbeats' = q
       /\ batches' = b
       /\ fetchInFlight' = FetchStarted

(* --------------------------- sendHeartbeat ---------------------------- *)
\* the end of sendHeartbeat, past the gate and the guards: the heartbeat is
\* constructed; offline it goes to the queue and the caller's .then starts
\* fetchDailySummary, online its POST is sent.  push on a value that is not
\* an array is a TypeError: the call ends there, rejected.
HeartbeatConstructed ==
  /\ nextHb <= MaxHeartbeats
  /\ nextHb' = nextHb + 1
  /\ IF ~isOnline
     THEN IF QueueIsArray
          THEN /\ offlineHeartbeats' = Append(offlineHeartbeats, nextHb)
               /\ queueFile' = Saved(offlineHeartbeats')
               /\ enqLog' = Append(enqLog, nextHb)
               /\ fetchInFlight' = FetchStarted
               /\ UNCHANGED <<inflightOne, threw>>
          ELSE /\ threw' = TRUE
               /\ UNCHANGED <<offlineHeartbeats, queueFile, enqLog,
                              fetchInFlight, inflightOne>>
     ELSE /\ inflightOne' = inflightOne \cup {nextHb}
          /\ UNCHANGED <<offlineHeartbeats, queueFile, enqLog, fetchInFlight,
                         threw>>
  /\ UNCHANGED <<isOnline, hasValidApiKey, sbIsOnline, sbHasValidApiKey, unsyncedLocalSeconds,
                 todayLocalTotalSeconds, sbTotalSeconds, syncAtLog, syncAtCfg,
                 batches, accepted, batchLog, serverHealthy, faults>>

\* sendHeartbeat for a trigger that passed the gate and the guards, with
\* the trigger layer left out: any trigger, at any time
SendHeartbeat == HeartbeatConstructed /\ UNCHANGED trigVars

\* mutant: the 2xx callback forgets to reset unsyncedLocalSeconds
SendOneOkKeepsUnsynced(h) ==
  /\ h \in inflightOne
  /\ "ok" \in Possible
  /\ syncAtLog + FlushSpawned(TRUE) <= MaxSync
  /\ inflightOne' = inflightOne \ {h}
  /\ accepted' = accepted \cup {h}
  /\ isOnline' = TRUE
  /\ sbIsOnline' = Notified(sbIsOnline, isOnline, TRUE)
  /\ syncAtLog' = syncAtLog + FlushSpawned(TRUE)
  /\ hasValidApiKey' = TRUE
  /\ sbHasValidApiKey' = Notified(sbHasValidApiKey, hasValidApiKey, TRUE)
  /\ fetchInFlight' = FetchStarted
  /\ UNCHANGED <<offlineHeartbeats, queueFile, todayLocalTotalSeconds,
                 sbTotalSeconds, nextHb, syncAtCfg, batches, batchLog, enqLog,
                 serverHealthy, faults, unsyncedLocalSeconds>>
  /\ UNCHANGED <<trigVars, threw>>

\* the single POST of h answered 2xx: the response callback
SendOneOk(h) ==
  /\ h \in inflightOne
  /\ "ok" \in Possible
  /\ syncAtLog + FlushSpawned(TRUE) <= MaxSync
  /\ inflightOne' = inflightOne \ {h}
  /\ accepted' = accepted \cup {h}
  /\ isOnline' = TRUE
  /\ sbIsOnline' = Notified(sbIsOnline, isOnline, TRUE)
  /\ syncAtLog' = syncAtLog + FlushSpawned(TRUE)
  /\ hasValidApiKey' = TRUE
  /\ sbHasValidApiKey' = Notified(sbHasValidApiKey, hasValidApiKey, TRUE)
  /\ unsyncedLocalSeconds' = 0
  /\ fetchInFlight' = FetchStarted
  /\ UNCHANGED <<offlineHeartbeats, queueFile, todayLocalTotalSeconds,
                 sbTotalSeconds, nextHb, syncAtCfg, batches, batchLog, enqLog,
                 serverHealthy, faults>>
  /\ UNCHANGED <<trigVars, threw>>

\* mutant: the catch block forgets the heartbeat
SendOneFailDropsHeartbeat(h, outcome) ==
  /\ h \in inflightOne
  /\ outcome \in Possible \ {"ok"}
  /\ inflightOne' = inflightOne \ {h}
  /\ IF IsKeyError(outcome)
     THEN /\ hasValidApiKey' = FALSE
          /\ sbHasValidApiKey' = Notified(sbHasValidApiKey, hasValidApiKey, FALSE)
          /\ UNCHANGED <<isOnline, sbIsOnline, syncAtLog>>
     ELSE /\ syncAtLog + FlushSpawned(FALSE) <= MaxSync
          /\ isOnline' = FALSE
          /\ sbIsOnline' = Notified(sbIsOnline, isOnline, FALSE)
          /\ syncAtLog' = syncAtLog + FlushSpawned(FALSE)
          /\ UNCHANGED <<hasValidApiKey, sbHasValidApiKey>>
  /\ fetchInFlight' = FetchStarted
  /\ UNCHANGED <<offlineHeartbeats, queueFile, enqLog, threw,
                 unsyncedLocalSeconds, todayLocalTotalSeconds, sbTotalSeconds,
                 nextHb, syncAtCfg, batches, accepted, batchLog, serverHealthy, faults>>
  /\ UNCHANGED trigVars

\* the single POST of h failed (401, another status, transport error): the
\* response callback and the catch block
SendOneFail(h, outcome) ==
  /\ h \in inflightOne
  /\ outcome \in Possible \ {"ok"}
  /\ inflightOne' = inflightOne \ {h}
  /\ IF IsKeyError(outcome)
     THEN /\ hasValidApiKey' = FALSE
          /\ sbHasValidApiKey' = Notified(sbHasValidApiKey, hasValidApiKey, FALSE)
          /\ UNCHANGED <<isOnline, sbIsOnline, syncAtLog>>
     ELSE /\ syncAtLog + FlushSpawned(FALSE) <= MaxSync
          /\ isOnline' = FALSE
          /\ sbIsOnline' = Notified(sbIsOnline, isOnline, FALSE)
          /\ syncAtLog' = syncAtLog + FlushSpawned(FALSE)
          /\ UNCHANGED <<hasValidApiKey, sbHasValidApiKey>>
  /\ IF QueueIsArray
     THEN /\ offlineHeartbeats' = Append(offlineHeartbeats, h)
          /\ queueFile' = Saved(offlineHeartbeats')
          /\ enqLog' = Append(enqLog, h)
          /\ fetchInFlight' = FetchStarted
          /\ UNCHANGED threw
     ELSE /\ threw' = TRUE
          /\ UNCHANGED <<offlineHeartbeats, queueFile, enqLog, fetchInFlight>>
  /\ UNCHANGED <<unsyncedLocalSeconds, todayLocalTotalSeconds, sbTotalSeconds,
                 nextHb, syncAtCfg, batches, accepted, batchLog, serverHealthy, faults>>
  /\ UNCHANGED trigVars

(* ----------------------- syncOfflineHeartbeats ------------------------ *)
\* mutant: the guard of the flush tests the queue only
SyncGuardQueueOnly ==
  /\ syncAtLog > 0
  /\ syncAtLog' = syncAtLog - 1
  /\ IF QueueIsArray /\ Len(offlineHeartbeats) = 0
     THEN UNCHANGED syncAtCfg
     ELSE /\ syncAtCfg < MaxSync
          /\ syncAtCfg' = syncAtCfg + 1
  /\ UNCHANGED <<offlineHeartbeats, queueFile, isOnline, hasValidApiKey, sbIsOnline, sbHasValidApiKey,
                 unsyncedLocalSeconds, todayLocalTotalSeconds, sbTotalSeconds,
                 nextHb, inflightOne, batches, fetchInFlight, accepted,
                 batchLog, enqLog, serverHealthy, faults>>
  /\ UNCHANGED <<trigVars, threw>>

\* a flush resumes after the await in its log call and evaluates
\* `if (!this.isOnline || this.offlineHeartbeats.length === 0) return;`
\* (the length of an object that is not an array is undefined, not 0)
SyncGuard ==
  /\ syncAtLog > 0
  /\ syncAtLog' = syncAtLog - 1
  /\ IF ~isOnline \/ (QueueIsArray /\ Len(offlineHeartbeats) = 0)
     THEN UNCHANGED syncAtCfg
     ELSE /\ syncAtCfg < MaxSync
          /\ syncAtCfg' = syncAtCfg + 1
  /\ UNCHANGED <<offlineHeartbeats, queueFile, isOnline, hasValidApiKey, sbIsOnline, sbHasValidApiKey,
                 unsyncedLocalSeconds, todayLocalTotalSeconds, sbTotalSeconds,
                 nextHb, inflightOne, batches, fetchInFlight, accepted,
                 batchLog, enqLog, serverHealthy, faults>>
  /\ UNCHANGED <<trigVars, threw>>

\* SyncGuard with up to MaxCascade flushes past the guard at a time
SyncGuardConcurrent ==
  /\ syncAtLog > 0
  /\ syncAtLog' = syncAtLog - 1
  /\ IF ~isOnline \/ (QueueIsArray /\ Len(offlineHeartbeats) = 0)
     THEN UNCHANGED syncAtCfg
     ELSE /\ syncAtCfg < MaxCascade
          /\ syncAtCfg' = syncAtCfg + 1
  /\ UNCHANGED <<offlineHeartbeats, queueFile, isOnline, hasValidApiKey, sbIsOnline, sbHasValidApiKey,
                 unsyncedLocalSeconds, todayLocalTotalSeconds, sbTotalSeconds,
                 nextHb, inflightOne, batches, fetchInFlight, accepted,
                 batchLog, enqLog, serverHealthy, faults>>
  /\ UNCHANGED <<trigVars, threw>>

\* a flush resumes with the key and the url: without a key it returns,
\* with one it maps the queue (a TypeError when the queue is not an array)
\* and enters the while loop
SyncEnterLoop ==
  /\ syncAtCfg > 0
  /\ syncAtCfg' = syncAtCfg - 1
  /\ IF apiKey
     THEN IF QueueIsArray
          THEN LoopHead(offlineHeartbeats, batches, batchLog)
                 /\ UNCHANGED threw
          ELSE /\ threw' = TRUE
               /\ UNCHANGED <<offlineHeartbeats, batches, fetchInFlight>>
     ELSE UNCHANGED <<offlineHeartbeats, batches, fetchInFlight, threw>>
  /\ UNCHANGED <<queueFile, isOnline, hasValidApiKey, sbIsOnline, sbHasValidApiKey, unsyncedLocalSeconds,
                 todayLocalTotalSeconds, sbTotalSeconds, nextHb, inflightOne,
                 syncAtLog, accepted, batchLog, enqLog, serverHealthy, faults>>
  /\ UNCHANGED trigVars

\* the batch POST b answered 2xx: the flush resumes after the await,
\* saves the queue and goes round the loop
SyncBatchOk(b) ==
  /\ b \in batches
  /\ "ok" \in Possible
  /\ syncAtLog + FlushSpawned(TRUE) <= MaxSync
  /\ batchLog' = batchLog \o b.hbs
  /\ isOnline' = TRUE
  /\ sbIsOnline' = Notified(sbIsOnline, isOnline, TRUE)
  /\ syncAtLog' = syncAtLog + FlushSpawned(TRUE)
  /\ hasValidApiKey' = TRUE
  /\ sbHasValidApiKey' = Notified(sbHasValidApiKey, hasValidApiKey, TRUE)
  /\ queueFile' = Saved(offlineHeartbeats)
  /\ unsyncedLocalSeconds' = 0
  /\ LoopHead(offlineHeartbeats, batches \ {b}, batchLog')
  /\ UNCHANGED <<todayLocalTotalSeconds, sbTotalSeconds, nextHb, inflightOne,
                 syncAtCfg, accepted, enqLog, serverHealthy, faults>>
  /\ UNCHANGED <<trigVars, threw>>

\* mutant: the failed batch is dropped
RestoredDropsBatch(batch, q) == q

\* mutant: the failed batch is put back behind the queue
RestoredAtBack(batch, q) == q \o batch

\* the queue after the catch block put a failed batch back:
\* [...batch, ...this.offlineHeartbeats]
Restored(batch, q) == batch \o q

\* mutant: after a failed batch the loop goes on with the next batch
SyncBatchFailGoesOn(b, outcome) ==
  /\ b \in batches
  /\ outcome \in Possible \ {"ok"}
  /\ queueFile' = Saved(Restored(b.hbs, offlineHeartbeats))
  /\ IF IsKeyError(outcome)
     THEN /\ hasValidApiKey' = FALSE
          /\ sbHasValidApiKey' = Notified(sbHasValidApiKey, hasValidApiKey, FALSE)
          /\ UNCHANGED <<isOnline, sbIsOnline, syncAtLog>>
     ELSE /\ syncAtLog + FlushSpawned(FALSE) <= MaxSync
          /\ isOnline' = FALSE
          /\ sbIsOnline' = Notified(sbIsOnline, isOnline, FALSE)
          /\ syncAtLog' = syncAtLog + FlushSpawned(FALSE)
          /\ UNCHANGED <<hasValidApiKey, sbHasValidApiKey>>
  /\ LoopHead(Restored(b.hbs, offlineHeartbeats), batches \ {b}, batchLog)
  /\ UNCHANGED <<unsyncedLocalSeconds, todayLocalTotalSeconds, sbTotalSeconds,
                 nextHb, inflightOne, syncAtCfg, accepted,
                 batchLog, enqLog, serverHealthy, faults>>
  /\ UNCHANGED <<trigVars, threw>>

\* the batch POST b failed: the response callback, the catch block
\* (restore, save, classify) and the break
SyncBatchFail(b, outcome) ==
  /\ b \in batches
  /\ outcome \in Possible \ {"ok"}
  /\ batches' = batches \ {b}
  /\ offlineHeartbeats' = Restored(b.hbs, offlineHeartbeats)
  /\ queueFile' = Saved(offlineHeartbeats')
  /\ IF IsKeyError(outcome)
     THEN /\ hasValidApiKey' = FALSE
          /\ sbHasValidApiKey' = Notified(sbHasValidApiKey, hasValidApiKey, FALSE)
          /\ UNCHANGED <<isOnline, sbIsOnline, syncAtLog>>
     ELSE /\ syncAtLog + FlushSpawned(FALSE) <= MaxSync
          /\ isOnline' = FALSE
          /\ sbIsOnline' = Notified(sbIsOnline, isOnline, FALSE)
          /\ syncAtLog' = syncAtLog + FlushSpawned(FALSE)
          /\ UNCHANGED <<hasValidApiKey, sbHasValidApiKey>>
  /\ UNCHANGED <<unsyncedLocalSeconds, todayLocalTotalSeconds, sbTotalSeconds,
                 nextHb, inflightOne, syncAtCfg, fetchInFlight, accepted,
                 batchLog, enqLog, serverHealthy, faults>>
  /\ UNCHANGED <<trigVars, threw>>

(* ------------------------- fetchDailySummary -------------------------- *)
\* how a stats request ends: 2xx with a today summary, 2xx without one,
\* 2xx with a body that is not JSON, 401, another status, transport error
FetchFailures == {"unauthorized", "status", "transport", "badjson"}

FetchPossible ==
  IF serverHealthy THEN {"ok"}
  ELSE {"ok", "empty"} \cup (faults \cap FetchFailures)

\* catch of fetchDailySummary: error.message.includes("401").  The 401
\* message holds it; the other messages quote the response body, the
\* parser's complaint or the socket error, which may hold it (has401).
IsKeyErrorFetch(outcome, has401) == outcome = "unauthorized" \/ has401

\* fetchDailySummary is started by the 15 minute timer or by a change of
\* the window focus
FetchInvoke ==
  /\ apiKey
  /\ fetchInFlight < MaxFetch
  /\ fetchInFlight' = fetchInFlight + 1
  /\ UNCHANGED <<offlineHeartbeats, queueFile, isOnline, hasValidApiKey, sbIsOnline, sbHasValidApiKey,
                 unsyncedLocalSeconds, todayLocalTotalSeconds, sbTotalSeconds,
                 nextHb, inflightOne, syncAtLog, syncAtCfg, batches, accepted,
                 batchLog, enqLog, serverHealthy, faults>>
  /\ UNCHANGED <<trigVars, threw>>

\* the stats request answered 2xx with a body that parses; total is the
\* totalSeconds of summaries[0], outcome "empty" a body without summaries
FetchOk(outcome, total) ==
  /\ fetchInFlight > 0
  /\ outcome \in FetchPossible \cap {"ok", "empty"}
  /\ syncAtLog + FlushSpawned(TRUE) <= MaxSync
  /\ fetchInFlight' = fetchInFlight - 1
  /\ isOnline' = TRUE
  /\ sbIsOnline' = Notified(sbIsOnline, isOnline, TRUE)
  /\ syncAtLog' = syncAtLog + FlushSpawned(TRUE)
  /\ hasValidApiKey' = TRUE
  /\ sbHasValidApiKey' = Notified(sbHasValidApiKey, hasValidApiKey, TRUE)
  /\ IF outcome = "ok"
     THEN /\ todayLocalTotalSeconds' = total
          /\ sbTotalSeconds' = UpdateTime(total)
          /\ unsyncedLocalSeconds' = 0
     ELSE /\ sbTotalSeconds' = UpdateTime(0)
          /\ UNCHANGED <<todayLocalTotalSeconds, unsyncedLocalSeconds>>
  /\ UNCHANGED <<offlineHeartbeats, queueFile, nextHb, inflightOne, syncAtCfg,
                 batches, accepted, batchLog, enqLog, serverHealthy, faults>>
  /\ UNCHANGED <<trigVars, threw>>

\* FetchOk with up to MaxCascade flushes suspended before the guard at a
\* time
FetchOkConcurrent(outcome, total) ==
  /\ fetchInFlight > 0
  /\ outcome \in FetchPossible \cap {"ok", "empty"}
  /\ syncAtLog + FlushSpawned(TRUE) <= MaxCascade
  /\ fetchInFlight' = fetchInFlight - 1
  /\ isOnline' = TRUE
  /\ sbIsOnline' = Notified(sbIsOnline, isOnline, TRUE)
  /\ syncAtLog' = syncAtLog + FlushSpawned(TRUE)
  /\ hasValidApiKey' = TRUE
  /\ sbHasValidApiKey' = Notified(sbHasValidApiKey, hasValidApiKey, TRUE)
  /\ IF outcome = "ok"
     THEN /\ todayLocalTotalSeconds' = total
          /\ sbTotalSeconds' = UpdateTime(total)
          /\ unsyncedLocalSeconds' = 0
     ELSE /\ sbTotalSeconds' = UpdateTime(0)
          /\ UNCHANGED <<todayLocalTotalSeconds, unsyncedLocalSeconds>>
  /\ UNCHANGED <<offlineHeartbeats, queueFile, nextHb, inflightOne, syncAtCfg,
                 batches, accepted, batchLog, enqLog, serverHealthy, faults>>
  /\ UNCHANGED <<trigVars, threw>>

\* totalSeconds of today's summary in the response to the n-th stats
\* request: the server answers each request with the total it has then,
\* a minute more from one request to the next
TotalFor(n) == n * SecondsPerMinute

\* fetchDailySummary is started once more while earlier requests may still
\* await their response: FetchInvoke with the requests told apart
FetchIssued ==
  /\ apiKey
  /\ fetchSeq.issued < MaxFetchIssued
  /\ fetchInFlight' = fetchInFlight + 1
  /\ fetchSeq' = [fetchSeq EXCEPT !.issued = @ + 1,
                                  !.pending = @ \cup {fetchSeq.issued + 1}]
  /\ UNCHANGED <<offlineHeartbeats, queueFile, isOnline, hasValidApiKey,
                 sbIsOnline, sbHasValidApiKey, unsyncedLocalSeconds,
                 todayLocalTotalSeconds, sbTotalSeconds, nextHb, inflightOne,
                 syncAtLog, syncAtCfg, batches, accepted, batchLog, enqLog,
                 serverHealthy, faults, threw>>
  /\ UNCHANGED <<now, lastActivity, lastTimeAccumulated, isWindowFocused,
                 lastHeartbeat, lastFile, activeEditor, activeDocumentInfo,
                 sendAtProject, sendDocs, sbIsTracking, enabled, apiKey,
                 gapSeconds, focusedSinceTick, fileContent, timestamps,
                 statusBar, disk>>

\* the n-th stats request is answered 2xx with today's summary, in
\* whatever order the responses arrive: FetchOk("ok", TotalFor(n)) with
\* the requests told apart
FetchAnswered(n) ==
  /\ n \in fetchSeq.pending
  /\ "ok" \in FetchPossible
  /\ syncAtLog + FlushSpawned(TRUE) <= MaxSync
  /\ fetchInFlight' = fetchInFlight - 1
  /\ fetchSeq' = [fetchSeq EXCEPT !.pending = @ \ {n}, !.adopted = n,
                                  !.resetAt = now]
  /\ isOnline' = TRUE
  /\ sbIsOnline' = Notified(sbIsOnline, isOnline, TRUE)
  /\ syncAtLog' = syncAtLog + FlushSpawned(TRUE)
  /\ hasValidApiKey' = TRUE
  /\ sbHasValidApiKey' = Notified(sbHasValidApiKey, hasValidApiKey, TRUE)
  /\ todayLocalTotalSeconds' = TotalFor(n)
  /\ sbTotalSeconds' = UpdateTime(TotalFor(n))
  /\ unsyncedLocalSeconds' = 0
  /\ UNCHANGED <<offlineHeartbeats, queueFile, nextHb, inflightOne, syncAtCfg,
                 batches, accepted, batchLog, enqLog, serverHealthy, faults,
                 threw>>
  /\ UNCHANGED <<now, lastActivity, lastTimeAccumulated, isWindowFocused,
                 lastHeartbeat, lastFile, activeEditor, activeDocumentInfo,
                 sendAtProject, sendDocs, sbIsTracking, enabled, apiKey,
                 gapSeconds, focusedSinceTick, fileContent, timestamps,
                 statusBar, disk>>

\* mutant: the acknowledged baseline is left out of the fallback
FallbackTotalUnsyncedOnly == unsyncedLocalSeconds

\* the total the catch block of fetchDailySummary shows
FallbackTotal == todayLocalTotalSeconds + unsyncedLocalSeconds

\* the stats request failed: makeRequest's callbacks and the catch block
FetchFail(outcome, has401) ==
  /\ fetchInFlight > 0
  /\ outcome \in FetchPossible \cap FetchFailures
  /\ fetchInFlight' = fetchInFlight - 1
  /\ LET offline == outcome = "transport" \/ ~IsKeyErrorFetch(outcome, has401)
         badKey == IsKeyErrorFetch(outcome, has401)
     IN /\ IF offline
           THEN /\ syncAtLog + FlushSpawned(FALSE) <= MaxSync
                /\ isOnline' = FALSE
                /\ sbIsOnline' = Notified(sbIsOnline, isOnline, FALSE)
                /\ syncAtLog' = syncAtLog + FlushSpawned(FALSE)
           ELSE UNCHANGED <<isOnline, sbIsOnline, syncAtLog>>
        /\ hasValidApiKey' = IF badKey THEN FALSE ELSE hasValidApiKey
        /\ sbHasValidApiKey' = IF badKey
                               THEN Notified(sbHasValidApiKey, hasValidApiKey, FALSE)
                               ELSE sbHasValidApiKey
  /\ sbTotalSeconds' =
       IF todayLocalTotalSeconds > 0 \/ unsyncedLocalSeconds > 0
       THEN UpdateTime(FallbackTotal)
       ELSE sbTotalSeconds
  /\ UNCHANGED <<offlineHeartbeats, queueFile, unsyncedLocalSeconds,
                 todayLocalTotalSeconds, nextHb, inflightOne, syncAtCfg,
                 batches, accepted, batchLog, enqLog, serverHealthy, faults>>
  /\ UNCHANGED <<trigVars, threw>>

(* ------------------------ activity accumulator ------------------------ *)
\* a tick of the 5 s accumulator while the window is focused and the last
\* interaction is recent: the elapsed seconds are added
AccumulatorTick ==
  /\ unsyncedLocalSeconds + TickSeconds <= MaxTicks * TickSeconds
  /\ unsyncedLocalSeconds' = unsyncedLocalSeconds + TickSeconds
  /\ UNCHANGED <<offlineHeartbeats, queueFile, isOnline, hasValidApiKey, sbIsOnline, sbHasValidApiKey,
                 todayLocalTotalSeconds, sbTotalSeconds, nextHb, inflightOne,
                 syncAtLog, syncAtCfg, batches, fetchInFlight, accepted,
                 batchLog, enqLog, serverHealthy, faults>>
  /\ UNCHANGED <<trigVars, threw>>

(* ----------------------------- the server ----------------------------- *)
\* the server is reachable with a valid key from now on
ServerRecover ==
  /\ ~serverHealthy
  /\ serverHealthy' = TRUE
  /\ UNCHANGED <<faults, offlineHeartbeats, queueFile, isOnline, hasValidApiKey, sbIsOnline, sbHasValidApiKey,
                 unsyncedLocalSeconds, todayLocalTotalSeconds, sbTotalSeconds,
                 nextHb, inflightOne, syncAtLog, syncAtCfg, batches,
                 fetchInFlight, accepted, batchLog, enqLog>>
  /\ UNCHANGED <<trigVars, threw>>

(* --------------------------- the triggers ----------------------------- *)
\* the variables of the delivery layer that no trigger handler writes
deliveryVars == <<offlineHeartbeats, queueFile, isOnline, hasValidApiKey, sbIsOnline, sbHasValidApiKey,
                  todayLocalTotalSeconds, sbTotalSeconds, nextHb, inflightOne,
                  syncAtLog, syncAtCfg, batches, accepted, batchLog, enqLog,
                  serverHealthy, faults, fileContent, threw, fetchSeq, statusBar, disk>>

\* mutant: the focus alone makes the user active
IsEffectivelyActiveFocusOnly == isWindowFocused

\* userIsEffectivelyActive of the heartbeat timer, and the test of the
\* accumulator
IsEffectivelyActive ==
  isWindowFocused /\ now - lastActivity < InactivityThreshold

\* mutant: the gate lets every call through
GatePassesAlways(force, adi) ==
  /\ activeEditor' # 0
  /\ adi # 0

\* the guards and the gate at the head of sendHeartbeat(force); adi is
\* this.activeDocumentInfo as the handler left it.  The handlers assign
\* activeEditor before the call, hence the prime.
GatePasses(force, adi) ==
  /\ activeEditor' # 0
  /\ adi # 0
  /\ (force \/ lastFile # activeEditor'
            \/ now - lastHeartbeat >= HeartbeatInterval)

\* mutant: the call that passes the gate leaves lastFile and lastHeartbeat
\* for the construction of the heartbeat
SendHeartbeatCallKeepsGate(force, adi) ==
  IF GatePasses(force, adi)
  THEN /\ sendAtProject < MaxSendAtProject
       /\ sendAtProject' = sendAtProject + 1
       /\ sendDocs' = Append(sendDocs, activeEditor')
       /\ UNCHANGED <<lastFile, lastHeartbeat, fetchInFlight>>
  ELSE /\ fetchInFlight' = FetchStarted
       /\ UNCHANGED <<sendAtProject, sendDocs, lastFile, lastHeartbeat>>

\* sendHeartbeat(force) up to its first await, and what its caller's
\* .then does when it returned there: past the gate the call records the
\* file and the time and suspends; stopped by a guard or the gate it
\* returns and the .then starts fetchDailySummary
SendHeartbeatCall(force, adi) ==
  IF GatePasses(force, adi)
  THEN /\ sendAtProject < MaxSendAtProject
       /\ sendAtProject' = sendAtProject + 1
       /\ sendDocs' = Append(sendDocs, activeEditor')
       /\ lastFile' = activeEditor'
       /\ lastHeartbeat' = now
       /\ UNCHANGED fetchInFlight
  ELSE /\ fetchInFlight' = FetchStarted
       /\ UNCHANGED <<sendAtProject, sendDocs, lastFile, lastHeartbeat>>

\* recordUserInteraction
RecordUserInteraction ==
  /\ lastActivity' = now
  /\ sbIsTracking' = (IF isWindowFocused THEN TRUE ELSE sbIsTracking)
  /\ gapSeconds' = 0

\* onDidChangeActiveTextEditor: the editor now shows e (0: no editor)
HandleActiveEditorChange(e) ==
  /\ activeEditor' = e
  /\ IF e # 0
     THEN /\ activeDocumentInfo' = e
          /\ RecordUserInteraction
          /\ SendHeartbeatCall(TRUE, e)
     ELSE UNCHANGED <<activeDocumentInfo, lastActivity, sbIsTracking,
                      gapSeconds, sendAtProject, sendDocs, lastFile, lastHeartbeat,
                      fetchInFlight>>
  /\ UNCHANGED <<now, lastTimeAccumulated, isWindowFocused, enabled, apiKey,
                 unsyncedLocalSeconds>>
  /\ UNCHANGED <<focusedSinceTick, timestamps>>
  /\ UNCHANGED deliveryVars

\* onDidChangeActiveTextEditor for an editor e, with up to MaxOverlap calls
\* of sendHeartbeat suspended at once: the forced call passes the gate
\* (an editor and a descriptor exist) and suspends at its first await
HandleActiveEditorChangeOverlapping(e) ==
  /\ e # 0
  /\ activeEditor' = e
  /\ activeDocumentInfo' = e
  /\ RecordUserInteraction
  /\ sendAtProject < MaxOverlap
  /\ sendAtProject' = sendAtProject + 1
  /\ sendDocs' = Append(sendDocs, e)
  /\ lastFile' = e
  /\ lastHeartbeat' = now
  /\ UNCHANGED <<now, lastTimeAccumulated, isWindowFocused, enabled, apiKey,
                 unsyncedLocalSeconds, fetchInFlight>>
  /\ UNCHANGED <<focusedSinceTick, timestamps>>
  /\ UNCHANGED deliveryVars

\* onDidChangeTextDocument for the document d
HandleDocumentChange(d) ==
  /\ UNCHANGED activeEditor
  /\ IF activeEditor # 0 /\ activeEditor = d
     THEN /\ activeDocumentInfo' = d
          /\ RecordUserInteraction
          /\ IF lastFile # d \/ now - lastHeartbeat >= HeartbeatInterval
             THEN SendHeartbeatCall(FALSE, d)
             ELSE UNCHANGED <<sendAtProject, sendDocs, lastFile, lastHeartbeat,
                              fetchInFlight>>
     ELSE UNCHANGED <<activeDocumentInfo, lastActivity, sbIsTracking,
                      gapSeconds, sendAtProject, sendDocs, lastFile, lastHeartbeat,
                      fetchInFlight>>
  /\ UNCHANGED <<now, lastTimeAccumulated, isWindowFocused, enabled, apiKey,
                 unsyncedLocalSeconds>>
  /\ UNCHANGED <<focusedSinceTick, timestamps>>
  /\ UNCHANGED deliveryVars

\* onDidSaveTextDocument for the document d
HandleDocumentSave(d) ==
  /\ UNCHANGED <<activeEditor, activeDocumentInfo>>
  /\ IF activeEditor # 0 /\ activeEditor = d
     THEN /\ RecordUserInteraction
          /\ SendHeartbeatCall(TRUE, activeDocumentInfo)
     ELSE UNCHANGED <<lastActivity, sbIsTracking, gapSeconds, sendAtProject, sendDocs,
                      lastFile, lastHeartbeat, fetchInFlight>>
  /\ UNCHANGED <<now, lastTimeAccumulated, isWindowFocused, enabled, apiKey,
                 unsyncedLocalSeconds>>
  /\ UNCHANGED <<focusedSinceTick, timestamps>>
  /\ UNCHANGED deliveryVars

\* onDidChangeWindowState with windowState.focused = f
HandleWindowStateChange(f) ==
  /\ isWindowFocused' = f
  /\ IF ~f /\ isWindowFocused
     THEN /\ sbIsTracking' = FALSE
          /\ fetchInFlight' = FetchStarted
          /\ UNCHANGED <<lastActivity, gapSeconds>>
     ELSE IF f /\ ~isWindowFocused
          THEN /\ lastActivity' = now
               /\ gapSeconds' = 0
               /\ sbIsTracking' = TRUE
               /\ fetchInFlight' = FetchStarted
          ELSE UNCHANGED <<lastActivity, gapSeconds, sbIsTracking,
                           fetchInFlight>>
  /\ UNCHANGED <<now, lastTimeAccumulated, lastHeartbeat, lastFile,
                 activeEditor, activeDocumentInfo, sendAtProject, sendDocs, enabled,
                 apiKey, unsyncedLocalSeconds>>
  /\ UNCHANGED <<focusedSinceTick, timestamps>>
  /\ UNCHANGED deliveryVars

\* the callback of setInterval(..., this.heartbeatInterval)
HeartbeatTimer ==
  /\ UNCHANGED activeEditor
  /\ IF activeDocumentInfo # 0 /\ IsEffectivelyActive
     THEN /\ SendHeartbeatCall(FALSE, activeDocumentInfo)
          /\ sbIsTracking' = TRUE
     ELSE /\ sbIsTracking' = FALSE
          /\ UNCHANGED <<sendAtProject, sendDocs, lastFile, lastHeartbeat,
                         fetchInFlight>>
  /\ UNCHANGED <<now, lastActivity, lastTimeAccumulated, isWindowFocused,
                 activeDocumentInfo, enabled, apiKey, gapSeconds, focusedSinceTick,
                 unsyncedLocalSeconds>>
  /\ UNCHANGED timestamps
  /\ UNCHANGED deliveryVars

\* the seconds a tick of the accumulator adds
Accumulated ==
  IF IsEffectivelyActive /\ now - lastTimeAccumulated > 0
  THEN now - lastTimeAccumulated
  ELSE 0

\* the callback of the accumulator's setInterval(..., 5000), TickSeconds
\* after the one before
AccumulatorInterval ==
  /\ now - lastTimeAccumulated = TickSeconds
  /\ unsyncedLocalSeconds' = unsyncedLocalSeconds + Accumulated
  /\ gapSeconds' = gapSeconds + Accumulated
  /\ focusedSinceTick' = FALSE
  /\ lastTimeAccumulated' = now
  /\ UNCHANGED <<now, lastActivity, isWindowFocused, lastHeartbeat, lastFile,
                 activeEditor, activeDocumentInfo, sendAtProject, sendDocs,
                 sbIsTracking, enabled, apiKey, fetchInFlight>>
  /\ UNCHANGED timestamps
  /\ UNCHANGED deliveryVars

\* TickSeconds pass; the accumulator has run for this instant
Advance ==
  /\ now - lastTimeAccumulated < TickSeconds
  /\ now + TickSeconds <= StartTime + MaxElapsed
  /\ now' = now + TickSeconds
  /\ focusedSinceTick' = (focusedSinceTick \/ isWindowFocused)
  /\ UNCHANGED <<lastActivity, lastTimeAccumulated, isWindowFocused,
                 lastHeartbeat, lastFile, activeEditor, activeDocumentInfo,
                 sendAtProject, sendDocs, sbIsTracking, enabled, apiKey, gapSeconds,
                 unsyncedLocalSeconds, fetchInFlight>>
  /\ UNCHANGED timestamps
  /\ UNCHANGED deliveryVars

\* mutant: sendHeartbeat without the guards on the project name and the key
SendResumeNoGuards(hasProject) ==
  /\ sendAtProject > 0
  /\ sendAtProject' = sendAtProject - 1
  /\ \E i \in 1..Len(sendDocs) : sendDocs' = RemoveAt(sendDocs, i)
  /\ HeartbeatConstructed
  /\ UNCHANGED <<now, lastActivity, lastTimeAccumulated, isWindowFocused,
                 lastHeartbeat, lastFile, activeEditor, activeDocumentInfo,
                 sbIsTracking, enabled, apiKey, gapSeconds, focusedSinceTick,
                 fileContent, timestamps, fetchSeq, statusBar, disk>>

\* sendHeartbeat resumes after its awaits (project name, key, url,
\* branch): without a project name or without a key it returns and the
\* caller's .then starts fetchDailySummary, else the heartbeat is
\* constructed.  hasProject: getProjectName found a name.
SendResume(hasProject) ==
  /\ sendAtProject > 0
  /\ sendAtProject' = sendAtProject - 1
  /\ \E i \in 1..Len(sendDocs) : sendDocs' = RemoveAt(sendDocs, i)
  /\ IF hasProject /\ apiKey
     THEN HeartbeatConstructed
     ELSE /\ fetchInFlight' = FetchStarted
          /\ UNCHANGED <<unsyncedLocalSeconds>>
          /\ UNCHANGED deliveryVars
  /\ UNCHANGED <<now, lastActivity, lastTimeAccumulated, isWindowFocused,
                 lastHeartbeat, lastFile, activeEditor, activeDocumentInfo,
                 sbIsTracking, enabled, apiKey, gapSeconds, focusedSinceTick,
                 fileContent, timestamps, fetchSeq, statusBar, disk>>

\* mutant: the timestamp is the time since the last interaction
TimestampSinceActivity == now - lastActivity

\* heartbeat.timestamp: new Date() at the construction
Timestamp == now

\* SendResume with the timestamp of the heartbeat it constructs recorded
SendResumeStamped(hasProject) ==
  /\ sendAtProject > 0
  /\ sendAtProject' = sendAtProject - 1
  /\ \E i \in 1..Len(sendDocs) : sendDocs' = RemoveAt(sendDocs, i)
  /\ IF hasProject /\ apiKey
     THEN /\ HeartbeatConstructed
          /\ timestamps' = Append(timestamps, Timestamp)
     ELSE /\ fetchInFlight' = FetchStarted
          /\ UNCHANGED <<unsyncedLocalSeconds, timestamps>>
          /\ UNCHANGED deliveryVars
  /\ UNCHANGED <<now, lastActivity, lastTimeAccumulated, isWindowFocused,
                 lastHeartbeat, lastFile, activeEditor, activeDocumentInfo,
                 sbIsTracking, enabled, apiKey, gapSeconds, focusedSinceTick,
                 fileContent, fetchSeq, statusBar, disk>>

(* ------------------------- StatusBarManager --------------------------- *)
\* every variable but statusBar
barFrame == <<offlineHeartbeats, queueFile, isOnline, hasValidApiKey,
              sbIsOnline, sbHasValidApiKey, todayLocalTotalSeconds,
              sbTotalSeconds, nextHb, inflightOne, syncAtLog, syncAtCfg,
              batches, accepted, batchLog, enqLog, serverHealthy, faults,
              fileContent, threw, fetchSeq, lastActivity, lastTimeAccumulated, isWindowFocused,
              lastHeartbeat, lastFile, activeEditor, activeDocumentInfo,
              sendAtProject, sendDocs, sbIsTracking, enabled, apiKey,
              gapSeconds, focusedSinceTick, timestamps, now,
              unsyncedLocalSeconds, fetchInFlight, disk>>

\* StatusBarManager.startTracking()
StartTracking ==
  /\ statusBar' = IF ~statusBar.isTracking
                  THEN [statusBar EXCEPT !.isTracking = TRUE,
                                         !.trackingStartTime = now]
                  ELSE statusBar
  /\ UNCHANGED barFrame

\* StatusBarManager.stopTracking()
StopTracking ==
  /\ statusBar' = [statusBar EXCEPT !.isTracking = FALSE]
  /\ UNCHANGED barFrame

\* StatusBarManager.updateTime(hours, minutes)
UpdateTimeCalled(hours, minutes) ==
  /\ statusBar' = [statusBar EXCEPT
                     !.totalSeconds = hours * SecondsPerHour
                                        + minutes * SecondsPerMinute,
                     !.updatedAt = now]
  /\ UNCHANGED barFrame

\* displaySeconds of updateStatusBar
DisplaySeconds ==
  statusBar.totalSeconds
    + (IF statusBar.isTracking THEN now - statusBar.trackingStartTime ELSE 0)

(* --------------------------- the constructor -------------------------- *)
\* the fields as their initializers leave them, before the constructor's
\* body runs, over the files a previous session (of this version or of an
\* older one) left: none, an empty list or one heartbeat at either path
Declared ==
  /\ offlineHeartbeats = <<>>
  /\ queueFile = <<>>
  /\ enqLog = <<>>
  /\ nextHb = 1
  /\ isOnline = TRUE
  /\ sbIsOnline = TRUE
  /\ hasValidApiKey = TRUE
  /\ sbHasValidApiKey = TRUE
  /\ unsyncedLocalSeconds = 0
  /\ todayLocalTotalSeconds = 0
  /\ sbTotalSeconds = 0
  /\ inflightOne = {}
  /\ syncAtLog = 0
  /\ syncAtCfg = 0
  /\ batches = {}
  /\ fetchInFlight = 0
  /\ accepted = {}
  /\ batchLog = <<>>
  /\ serverHealthy = FALSE
  /\ now = StartTime
  /\ lastActivity = StartTime
  /\ lastTimeAccumulated = StartTime
  /\ lastHeartbeat = 0
  /\ lastFile = 0
  /\ activeEditor = 0
  /\ activeDocumentInfo = 0
  /\ sendAtProject = 0
  /\ sendDocs = <<>>
  /\ fetchSeq = [issued |-> 0, pending |-> {}, adopted |-> 0,
                 resetAt |-> StartTime]
  /\ statusBar = [totalSeconds |-> 0, trackingStartTime |-> 0,
                  isTracking |-> FALSE, updatedAt |-> StartTime]
  /\ sbIsTracking = FALSE
  /\ gapSeconds = 0
  /\ focusedSinceTick = FALSE
  /\ timestamps = <<>>
  /\ disk \in [phase : {"start"},
               legacy : {Absent, Holds(<<>>), Holds(<<1>>)},
               config : {Absent, Holds(<<>>), Holds(<<2>>)}]

\* the test of migrateOfflineHeartbeats: a file at the legacy path and none
\* at the new path
Migrates(legacy, config) == legacy.exists /\ ~config.exists

\* the constructor: migrateOfflineHeartbeats, loadOfflineHeartbeats and
\* initialize, which starts a flush.  copied: readFileSync and
\* writeFileSync of the migration succeed (an exception ends the migration
\* in its catch block); unlinked: so does unlinkSync.
Constructor(copied, unlinked) ==
  /\ disk.phase = "start"
  /\ LET written == Migrates(disk.legacy, disk.config) /\ copied
         config == IF written THEN Holds(disk.legacy.hbs) ELSE disk.config
         legacy == IF written /\ unlinked THEN Absent ELSE disk.legacy
         loaded == IF config.exists THEN config.hbs ELSE <<>>
     IN /\ disk' = [phase |-> "done", legacy |-> legacy, config |-> Absent]
        /\ offlineHeartbeats' = loaded
        /\ queueFile' = loaded
        /\ enqLog' = loaded
  /\ nextHb' = MaxHeartbeats
  /\ syncAtLog' = 1
  /\ UNCHANGED <<isOnline, hasValidApiKey, sbIsOnline, sbHasValidApiKey,
                 unsyncedLocalSeconds, todayLocalTotalSeconds, sbTotalSeconds,
                 inflightOne, syncAtCfg, batches, fetchInFlight, accepted,
                 batchLog, serverHealthy, faults, threw>>
  /\ UNCHANGED <<now, lastActivity, lastTimeAccumulated, isWindowFocused,
                 lastHeartbeat, lastFile, activeEditor, activeDocumentInfo,
                 sendAtProject, sendDocs, sbIsTracking, enabled, apiKey,
                 gapSeconds, focusedSinceTick, fileContent, timestamps,
                 fetchSeq, statusBar>>

(* ------------------------- the specification -------------------------- *)
Next ==
  \/ SendHeartbeat
  \/ \E h \in HbIds : SendOneOk(h)
  \/ \E h \in HbIds, o \in Outcomes : SendOneFail(h, o)
  \/ SyncGuard
  \/ SyncEnterLoop
  \/ \E b \in batches : SyncBatchOk(b)
  \/ \E b \in batches, o \in Outcomes : SyncBatchFail(b, o)
  \/ FetchInvoke
  \/ \E o \in {"ok", "empty"}, t \in ServerTotals : FetchOk(o, t)
  \/ \E o \in FetchFailures, k \in BOOLEAN : FetchFail(o, k)
  \/ AccumulatorTick
  \/ ServerRecover

Spec == Init /\ [][Next]_vars

\* The event loop runs every continuation that is ready, every request in
\* flight ends with a response or an error, and the 15 minute timer keeps
\* calling fetchDailySummary.  Triggers of heartbeats are not assumed.
Fairness ==
  /\ WF_vars(SyncGuard)
  /\ WF_vars(SyncEnterLoop)
  /\ WF_vars(\E h \in HbIds :
               SendOneOk(h) \/ \E o \in Outcomes : SendOneFail(h, o))
  /\ WF_vars(\E b \in batches :
               SyncBatchOk(b) \/ \E o \in Outcomes : SyncBatchFail(b, o))
  /\ WF_vars(\/ \E o \in {"ok", "empty"}, t \in ServerTotals : FetchOk(o, t)
             \/ \E o \in FetchFailures, k \in BOOLEAN : FetchFail(o, k))
  /\ WF_vars(FetchInvoke)

FairSpec == Init /\ [][Next]_vars /\ Fairness

Spec401 == Init401 /\ [][Next]_vars /\ Fairness

SpecTransient == InitTransient /\ [][Next]_vars /\ Fairness

\* A server that may leave a request unanswered: the event loop still runs
\* every continuation that is ready and the 15 minute timer keeps firing,
\* but no response and no error is promised for a request in flight (the
\* requests are made without a timeout).
HangFairness ==
  /\ WF_vars(SyncGuard)
  /\ WF_vars(SyncEnterLoop)
  /\ WF_vars(FetchInvoke)

HangSpec == Init /\ [][Next]_vars /\ HangFairness

\* The trigger layer.  A start with no editor open, the window focused,
\* with either configuration, against a server that fails by transport
\* errors.  Of the delivery layer TrigNext keeps what a trigger reaches:
\* the construction of the heartbeat, the response to its POST and the
\* guard of the flush that a change of isOnline starts.  No delivery action
\* writes a variable of trigVars, so nothing left out here changes what a
\* gate decides.
TrigInit ==
  /\ Started(0)
  /\ faults = {"transport"}
  /\ isWindowFocused = TRUE
  /\ enabled \in BOOLEAN
  /\ apiKey \in BOOLEAN
  /\ LoadedList

TrigNext ==
  \/ \E e \in Files \cup {0} : HandleActiveEditorChange(e)
  \/ \E d \in Files : HandleDocumentChange(d)
  \/ \E d \in Files : HandleDocumentSave(d)
  \/ \E f \in BOOLEAN : HandleWindowStateChange(f)
  \/ HeartbeatTimer
  \/ AccumulatorInterval
  \/ Advance
  \/ \E p \in BOOLEAN : SendResume(p)
  \/ \E h \in HbIds : SendOneOk(h)
  \/ \E h \in HbIds, o \in Outcomes : SendOneFail(h, o)
  \/ SyncGuard

TrigSpec == TrigInit /\ [][TrigNext]_vars

\* The guards on the configuration: the trigger layer with or without an
\* API key, over a queue that a previous session may have left an entry
\* in, with the flush that initialize starts running to its end.  The
\* window keeps the focus.
SkipInit ==
  /\ \E n \in 0..1 : Started(n)
  /\ faults = {"transport"}
  /\ isWindowFocused = TRUE
  /\ enabled = TRUE
  /\ apiKey \in BOOLEAN
  /\ LoadedList

SkipNext ==
  \/ \E e \in Files \cup {0} : HandleActiveEditorChange(e)
  \/ \E d \in Files : HandleDocumentChange(d)
  \/ \E d \in Files : HandleDocumentSave(d)
  \/ HeartbeatTimer
  \/ AccumulatorInterval
  \/ Advance
  \/ \E p \in BOOLEAN : SendResume(p)
  \/ \E h \in HbIds : SendOneOk(h)
  \/ \E h \in HbIds, o \in Outcomes : SendOneFail(h, o)
  \/ SyncGuard
  \/ SyncEnterLoop
  \/ \E b \in batches : SyncBatchOk(b)
  \/ \E b \in batches, o \in Outcomes : SyncBatchFail(b, o)

SkipSpec == SkipInit /\ [][SkipNext]_vars

\* The accumulator with the window focused throughout: interactions, the
\* clock and the accumulator's ticks, against a server that answers 2xx.
AccInit == Started(0) /\ faults = {} /\ Foreground /\ LoadedList

AccNext ==
  \/ \E e \in Files \cup {0} : HandleActiveEditorChange(e)
  \/ \E d \in Files : HandleDocumentChange(d)
  \/ \E d \in Files : HandleDocumentSave(d)
  \/ HeartbeatTimer
  \/ AccumulatorInterval
  \/ Advance
  \/ \E p \in BOOLEAN : SendResume(p)
  \/ \E h \in HbIds : SendOneOk(h)

AccSpec == AccInit /\ [][AccNext]_vars

\* The timestamps of the heartbeats: editor switches (0 closes the editor),
\* the heartbeat timer, the clock and the accumulator's ticks, sendHeartbeat
\* resuming with its timestamp recorded, and POSTs that succeed or fail
\* with a transport error.
StampInit == Started(0) /\ faults = {"transport"} /\ Foreground /\ LoadedList

StampNext ==
  \/ \E e \in Files \cup {0} : HandleActiveEditorChange(e)
  \/ HeartbeatTimer
  \/ AccumulatorInterval
  \/ Advance
  \/ \E p \in BOOLEAN : SendResumeStamped(p)
  \/ \E h \in HbIds : SendOneOk(h)
  \/ \E h \in HbIds, o \in Outcomes : SendOneFail(h, o)
  \/ SyncGuard

StampSpec == StampInit /\ [][StampNext]_vars

\* Overlapping calls of sendHeartbeat: editor switches while earlier calls
\* are still suspended at their awaits, changes of the active document,
\* the clock, and calls that resume in any order.
DocInit == Started(0) /\ faults = {} /\ Foreground /\ LoadedList

DocNext ==
  \/ \E e \in Files : HandleActiveEditorChangeOverlapping(e)
  \/ \E d \in Files : HandleDocumentChange(d)
  \/ AccumulatorInterval
  \/ Advance
  \/ \E p \in BOOLEAN : SendResume(p)
  \/ \E h \in HbIds : SendOneOk(h)

DocSpec == DocInit /\ [][DocNext]_vars

\* Overlapping stats requests against a server that answers each of them
\* 2xx: requests are issued and answered in any order while the
\* accumulator ticks and the flush of the start runs.
FetchInit == Started(0) /\ faults = {} /\ Foreground /\ LoadedList

FetchNext ==
  \/ FetchIssued
  \/ \E n \in 1..MaxFetchIssued : FetchAnswered(n)
  \/ AccumulatorTick
  \/ SyncGuard

FetchSpec == FetchInit /\ [][FetchNext]_vars

\* The cascade of internally triggered work: the flush that initialize
\* starts, over a queue a previous session may have left an entry in, and
\* what follows from it: responses to batch POSTs and to stats requests,
\* changes of the online status starting flushes, flushes starting stats
\* requests.  The one external event is FetchInvoke (the 15 minute timer, a
\* change of the window focus).
CascadeNext ==
  \/ SyncGuardConcurrent
  \/ SyncEnterLoop
  \/ \E b \in batches : SyncBatchOk(b)
  \/ \E b \in batches, o \in Outcomes : SyncBatchFail(b, o)
  \/ FetchInvoke
  \/ \E o \in {"ok", "empty"}, t \in ServerTotals : FetchOkConcurrent(o, t)
  \/ \E o \in FetchFailures, k \in BOOLEAN : FetchFail(o, k)

\* The event loop runs every continuation that is ready and every request
\* in flight ends with a response or an error; no external event is
\* assumed.
CascadeFairness ==
  /\ WF_vars(SyncGuardConcurrent)
  /\ WF_vars(SyncEnterLoop)
  /\ WF_vars(\E b \in batches :
               SyncBatchOk(b) \/ \E o \in Outcomes : SyncBatchFail(b, o))
  /\ WF_vars(\/ \E o \in {"ok", "empty"}, t \in ServerTotals :
                  FetchOkConcurrent(o, t)
             \/ \E o \in FetchFailures, k \in BOOLEAN : FetchFail(o, k))

CascadeSpec == Init /\ [][CascadeNext]_vars /\ CascadeFairness

\* unsyncedLocalSeconds between its resets: the window loses and regains
\* the focus, the clock runs past the inactivity threshold, the accumulator
\* ticks, and stats requests are answered with today's summary, each
\* answer resetting the counter.
UnsyncedInit == Started(0) /\ faults = {} /\ Foreground /\ LoadedList

UnsyncedNext ==
  \/ \E f \in BOOLEAN : HandleWindowStateChange(f)
  \/ AccumulatorInterval
  \/ Advance
  \/ FetchIssued
  \/ \E n \in 1..MaxFetchIssued : FetchAnswered(n)

UnsyncedSpec == UnsyncedInit /\ [][UnsyncedNext]_vars

\* The start of the manager over the queue files of a previous session:
\* the constructor, then the flush it starts and what the flush leads to,
\* with or without an API key.
MigrateInit ==
  /\ Declared
  /\ faults = AllFaults
  /\ isWindowFocused = TRUE
  /\ enabled = TRUE
  /\ apiKey \in BOOLEAN
  /\ LoadedList

MigrateNext ==
  \/ \E copied \in BOOLEAN, unlinked \in BOOLEAN : Constructor(copied, unlinked)
  \/ SyncGuard
  \/ SyncEnterLoop
  \/ \E b \in batches : SyncBatchOk(b)
  \/ \E b \in batches, o \in Outcomes : SyncBatchFail(b, o)
  \/ \E o \in {"ok", "empty"}, t \in ServerTotals : FetchOk(o, t)
  \/ \E o \in FetchFailures, k \in BOOLEAN : FetchFail(o, k)

MigrateSpec == MigrateInit /\ [][MigrateNext]_vars

\* A StatusBarManager under any sequence of startTracking, stopTracking
\* and updateTime calls, while the clock runs.
BarInit == Started(0) /\ faults = {} /\ Foreground /\ LoadedList

BarNext ==
  \/ StartTracking
  \/ StopTracking
  \/ \E hours \in 0..1, minutes \in 0..1 : UpdateTimeCalled(hours, minutes)
  \/ AccumulatorInterval
  \/ Advance

BarSpec == BarInit /\ [][BarNext]_vars

\* The process dies and the extension is activated again: the constructor
\* loads the queue from the file, every field starts afresh and initialize
\* starts a flush.  Requests in flight are lost with the process.  What the
\* server acknowledged, and the histories, stay.
CrashRestart ==
  /\ offlineHeartbeats' = queueFile
  /\ isOnline' = TRUE
  /\ sbIsOnline' = TRUE
  /\ hasValidApiKey' = TRUE
  /\ sbHasValidApiKey' = TRUE
  /\ unsyncedLocalSeconds' = 0
  /\ todayLocalTotalSeconds' = 0
  /\ sbTotalSeconds' = 0
  /\ inflightOne' = {}
  /\ syncAtLog' = 1
  /\ syncAtCfg' = 0
  /\ batches' = {}
  /\ fetchInFlight' = 0
  /\ UNCHANGED <<queueFile, nextHb, accepted, batchLog, enqLog,
                 serverHealthy, faults>>
  /\ UNCHANGED <<trigVars, threw>>

CrashNext == Next \/ CrashRestart

\* the delivery layer with crashes
CrashSpec == Init /\ [][CrashNext]_vars

\* A start over any content of the queue file.  A file that is no list
\* leaves no entries to load; for the object, offlineHeartbeats stands
\* empty in the model and QueueIsArray tells that the field holds the
\* object.
LoadInit ==
  /\ fileContent \in FileContents
  /\ IF fileContent = "list" THEN \E n \in 0..1 : Started(n) ELSE Started(0)
  /\ faults = AllFaults
  /\ Foreground
  /\ threw = FALSE

LoadSpec == LoadInit /\ [][Next]_vars

(* ======================== properties ================================== *)
\* heartbeats constructed so far
Constructed == 1..(nextHb - 1)

\* heartbeats inside a batch request in flight
InBatches == UNION {Range(b.hbs) : b \in batches}

\* heartbeats a 2xx response was received for
Delivered == accepted \cup Range(batchLog)

\* a batch request ended in this step without a 2xx
BatchFailed(b) == b \in batches /\ b \notin batches' /\ batchLog' = batchLog

\* C2 - no silent loss: every constructed heartbeat is accepted, in a
\* request in flight or in the queue; an entry leaves the queue only into
\* a batch, and a batch's entries go only to the server (2xx) or back to
\* the queue.
C2_NoSilentLoss ==
  /\ [](\A h \in Constructed :
          h \in Delivered \cup inflightOne \cup InBatches
                 \cup Range(offlineHeartbeats))
  /\ [][/\ \A h \in Range(offlineHeartbeats) :
             h \in Range(offlineHeartbeats') \cup InBatches'
        /\ \A h \in InBatches :
             h \in InBatches' \cup Range(offlineHeartbeats')
                  \cup Range(batchLog')]_vars

\* C2 witness: a batch failed and was put back while another heartbeat
\* was already accepted and a third is in flight
C2_Witness ==
  /\ accepted # {}
  /\ inflightOne # {}
  /\ ~isOnline
  /\ Len(offlineHeartbeats) > 0
  /\ batches = {}
  /\ offlineHeartbeats[1] = 1
  /\ Len(enqLog) = 1

\* a batch request ended in this step with a 2xx
BatchAcknowledged(b) ==
  b \in batches /\ b \notin batches' /\ batchLog' = batchLog \o b.hbs

\* C3 - ordering: a heartbeat enqueued before another is never delivered
\* to the batch endpoint after it: no batch is acknowledged that was sent
\* when a heartbeat enqueued later than one of its own was acknowledged
\* already, and within a batch the heartbeats are in the order of enqueue.
C3_OrderPreserved ==
  [][\A b \in batches :
       BatchAcknowledged(b) =>
         /\ ~b.late
         /\ \A i, j \in 1..Len(b.hbs) :
              i < j => Pos(enqLog, b.hbs[i]) < Pos(enqLog, b.hbs[j])]_vars

C6_TransientFailure ==
  [][/\ \A h \in inflightOne, o \in {"status", "transport"} :
          SendOneFail(h, o) =>
            /\ isOnline' = FALSE
            /\ hasValidApiKey' = hasValidApiKey
            /\ h \in Range(offlineHeartbeats')
     /\ \A b \in batches, o \in {"status", "transport"} :
          SyncBatchFail(b, o) =>
            /\ isOnline' = FALSE
            /\ hasValidApiKey' = hasValidApiKey
            /\ Range(b.hbs) \subseteq Range(offlineHeartbeats')]_vars

\* C6 witness: offline with the key flag still valid, heartbeat 3 queued
\* after its POST failed and the batch <<1, 2>> back in the queue
C6_Witness ==
  /\ ~isOnline
  /\ hasValidApiKey
  /\ offlineHeartbeats = <<1, 2, 3>>
  /\ enqLog = <<3, 1, 2>>
  /\ batches = {}
  /\ inflightOne = {}

\* C7 - a 2xx for the single or the batch POST leaves the key valid, the
\* manager online and unsyncedLocalSeconds at 0.
C7_SuccessResets ==
  [][((\E h \in inflightOne : SendOneOk(h))
        \/ (\E b \in batches : SyncBatchOk(b))) =>
       /\ hasValidApiKey'
       /\ isOnline'
       /\ unsyncedLocalSeconds' = 0]_vars

\* C7 witness: a heartbeat was accepted after seconds had accumulated
\* and the flags were down
C7_Witness ==
  /\ accepted = {1}
  /\ Range(batchLog) = {2}
  /\ isOnline
  /\ hasValidApiKey
  /\ unsyncedLocalSeconds = 0
  /\ todayLocalTotalSeconds = 0

\* C9 - overlapping flushes: no heartbeat is in two batches in flight, none
\* is sent again after its batch succeeded, and no entry leaves the queue
\* and the batches except by a 2xx.
C9_OverlappingFlushes ==
  /\ [](/\ \A b1, b2 \in batches :
             b1 # b2 => Range(b1.hbs) \cap Range(b2.hbs) = {}
        /\ \A b \in batches :
             /\ Range(b.hbs) \cap Range(batchLog) = {}
             /\ Range(b.hbs) \cap Range(offlineHeartbeats) = {}
             /\ Cardinality(Range(b.hbs)) = Len(b.hbs)
        /\ Range(offlineHeartbeats) \cap Range(batchLog) = {}
        /\ Cardinality(Range(batchLog)) = Len(batchLog)
        /\ Cardinality(Range(offlineHeartbeats)) = Len(offlineHeartbeats))
  /\ [][\A h \in Range(offlineHeartbeats) \cup InBatches :
          h \in Range(offlineHeartbeats') \cup InBatches'
               \cup (Range(batchLog') \ Range(batchLog))]_vars

\* C9 witness: two flushes have a batch in flight at the same time
C9_Witness == Cardinality(batches) >= 2

\* C10 - a failed stats request keeps todayLocalTotalSeconds and shows no
\* less than it, in whole minutes.
C10_NoRegression ==
  [][\A o \in FetchFailures, k \in BOOLEAN :
       FetchFail(o, k) =>
         /\ todayLocalTotalSeconds' = todayLocalTotalSeconds
         /\ sbTotalSeconds' >= UpdateTime(todayLocalTotalSeconds)]_vars

\* C10 witness: after a failed stats request the bar shows the baseline
\* plus the unsynced seconds, a minute more than the baseline alone
C10_Witness ==
  /\ todayLocalTotalSeconds > 0
  /\ unsyncedLocalSeconds > 0
  /\ sbTotalSeconds > UpdateTime(todayLocalTotalSeconds)

\* C1 - at-least-once delivery: once the server answers 2xx from now on,
\* every heartbeat constructed so far is eventually accepted, whatever
\* failures came before.
C1_AtLeastOnce ==
  \A h \in HbIds : (serverHealthy /\ h \in Constructed) ~> (h \in Delivered)

\* C8 - 401 recovery: under Spec401 a heartbeat is in the queue only after
\* its single POST got a 401, and online never changes; once the server
\* answers 2xx the heartbeat is eventually flushed and the key marked valid.
C8_Recovery401 ==
  \A h \in HbIds :
    (serverHealthy /\ h \in Range(offlineHeartbeats))
      ~> (h \in Range(batchLog) /\ hasValidApiKey)

\* C11 - every successful stats request (2xx, body parses) adopts the
\* server's total for today (0 when the body lists no summary) and resets
\* unsyncedLocalSeconds, whatever the body holds.
C11_FetchSuccessAdopts ==
  [][\A o \in {"ok", "empty"}, t \in ServerTotals :
       FetchOk(o, t) =>
         /\ todayLocalTotalSeconds' = (IF o = "ok" THEN t ELSE 0)
         /\ unsyncedLocalSeconds' = 0]_vars

\* a handler records an interaction in this step
Interaction ==
  \/ \E e \in Files : HandleActiveEditorChange(e)
  \/ \E d \in Files : HandleDocumentChange(d) /\ activeEditor = d
  \/ \E d \in Files : HandleDocumentSave(d) /\ activeEditor = d

\* C12 - threshold gating, window focused: when an interaction ends a gap
\* of g seconds since the one before, the accumulator has added the g
\* seconds if g is below the threshold and nothing if g is at or above it
\* (both up to the one tick by which a tick and an interaction can be out
\* of step).  activeDocumentInfo is set once a handler has recorded an
\* interaction, so the gap lies between two interactions.
C12_ThresholdGating ==
  [][(Interaction /\ activeDocumentInfo # 0) =>
       LET g == now - lastActivity
       IN IF g < InactivityThreshold
          THEN /\ gapSeconds >= g - TickSeconds
               /\ gapSeconds <= g + TickSeconds
          ELSE gapSeconds <= TickSeconds]_vars

\* a flush leaves its first await in this step
FlushResumes == syncAtLog' = syncAtLog - 1

C15_LoadFailure ==
  fileContent # "list" =>
    LoadOfflineHeartbeats(fileContent) = "empty" /\ ~threw

\* the part of C15 about files that cannot be read or parsed
C15_UnreadableOrUnparseable ==
  fileContent \in {"unreadable", "unparseable"} =>
    LoadOfflineHeartbeats(fileContent) = "empty" /\ ~threw

\* the part of C15 about exceptions alone
C15_NothingThrows == ~threw

\* C16 - while the setting 'enabled' is false no step constructs a
\* heartbeat, sends one or appends one to the queue.
C16_DisabledSendsNothing ==
  [][~enabled =>
       /\ nextHb' = nextHb
       /\ inflightOne' \subseteq inflightOne
       /\ Len(offlineHeartbeats') <= Len(offlineHeartbeats)]_vars

\* a heartbeat trigger runs in this step: a handler, the heartbeat timer,
\* or a sendHeartbeat call resuming after its awaits
TriggerStep ==
  \/ \E e \in Files \cup {0} : HandleActiveEditorChange(e)
  \/ \E d \in Files : HandleDocumentChange(d)
  \/ \E d \in Files : HandleDocumentSave(d)
  \/ HeartbeatTimer
  \/ \E p \in BOOLEAN : SendResume(p)

\* the step sends no heartbeat, appends nothing and leaves isOnline,
\* hasValidApiKey and unsyncedLocalSeconds as they are
SkipFrame ==
  /\ nextHb' = nextHb
  /\ inflightOne' = inflightOne
  /\ batches' = batches
  /\ offlineHeartbeats' = offlineHeartbeats
  /\ queueFile' = queueFile
  /\ isOnline' = isOnline
  /\ hasValidApiKey' = hasValidApiKey
  /\ unsyncedLocalSeconds' = unsyncedLocalSeconds

\* C17 as stated - silent skip: without an API key, or without a project
\* name for the active document, a trigger sends no request of any kind,
\* appends nothing and leaves isOnline, hasValidApiKey and
\* unsyncedLocalSeconds unchanged; a flush without an API key leaves the
\* queue unchanged and sends nothing.
C17_NoRequestAtAll ==
  /\ [][(TriggerStep /\ ~apiKey) =>
          SkipFrame /\ fetchInFlight' = fetchInFlight]_vars
  /\ [][SendResume(FALSE) => SkipFrame /\ fetchInFlight' = fetchInFlight]_vars
  /\ [][(SyncEnterLoop /\ ~apiKey) =>
          SkipFrame /\ fetchInFlight' = fetchInFlight]_vars

\* C17 - silent skip: without an API key a trigger sends no request of any
\* kind; without a project name it sends no heartbeat (the request for the
\* daily summary is still started when a key is configured); either way
\* nothing is appended and the step leaves isOnline, hasValidApiKey and
\* unsyncedLocalSeconds unchanged.  A flush without an API key leaves the
\* queue unchanged and sends nothing.
C17_SilentSkip ==
  /\ [][(TriggerStep /\ ~apiKey) =>
          SkipFrame /\ fetchInFlight' = fetchInFlight]_vars
  /\ [][SendResume(FALSE) => SkipFrame]_vars
  /\ [][(SyncEnterLoop /\ ~apiKey) =>
          SkipFrame /\ fetchInFlight' = fetchInFlight]_vars

\* without a key: a trigger passed the gate, its sendHeartbeat returned at
\* the guard, and the flush of the start returned over a queue of one
C17_Witness ==
  /\ ~apiKey
  /\ lastFile # 0
  /\ sendAtProject = 0
  /\ syncAtLog = 0
  /\ syncAtCfg = 0
  /\ offlineHeartbeats = <<1>>
  /\ queueFile = <<1>>
  /\ nextHb = 2
  /\ inflightOne = {}
  /\ batches = {}
  /\ fetchInFlight = 0

\* this step's sendHeartbeat call passes the gate: it records the time and
\* goes on to the guards and the construction
SendAttempted ==
  /\ sendAtProject' = sendAtProject + 1
  /\ lastHeartbeat' = now
  /\ lastFile' = activeEditor'

\* the forced triggers that call sendHeartbeat(true): a switch to an
\* editor and a save of the active document, with an active document
ForcedByEditorOrSave ==
  \/ \E e \in Files : HandleActiveEditorChange(e)
  \/ \E d \in Files :
       HandleDocumentSave(d) /\ activeEditor = d /\ activeDocumentInfo # 0

\* the window regains the focus while a document is active
FocusRegained ==
  /\ HandleWindowStateChange(TRUE)
  /\ ~isWindowFocused
  /\ activeEditor # 0
  /\ activeDocumentInfo # 0

\* C18 - forced triggers: an editor switch, a save and a regain of the
\* window focus each attempt a send, however recent the last heartbeat,
\* provided there is an active document.
C18_ForcedTriggers ==
  [][(ForcedByEditorOrSave \/ FocusRegained) => SendAttempted]_vars

\* the part of C18 about the editor switch and the save
C18_EditorAndSaveForce ==
  [][ForcedByEditorOrSave => SendAttempted]_vars

\* a non-forced trigger runs with an active document: a change of the
\* active document, or a tick of the heartbeat timer that finds the user
\* active
NonForcedTrigger ==
  \/ \E d \in Files : HandleDocumentChange(d) /\ activeEditor = d
  \/ /\ HeartbeatTimer
     /\ activeEditor # 0
     /\ activeDocumentInfo # 0
     /\ IsEffectivelyActive

\* fileChanged || timeThresholdPassed, on the fields the last call that
\* passed the gate left
GateOpen ==
  lastFile # activeEditor \/ now - lastHeartbeat >= HeartbeatInterval

C19_GateShut ==
  /\ activeDocumentInfo # 0
  /\ lastActivity = StartTime + TickSeconds
  /\ lastHeartbeat = StartTime
  /\ sendAtProject = 0
  /\ nextHb = 2

\* C20 - the user is effectively active iff the window is focused and
\* less than the inactivity threshold has passed since the last
\* interaction; a tick of the heartbeat timer calls sendHeartbeat only when
\* there is an active document and the user is effectively active, and
\* otherwise sends nothing and tells the status bar to stop tracking.
C20_TimerRule ==
  /\ [](IsEffectivelyActive <=>
          (isWindowFocused /\ now - lastActivity < InactivityThreshold))
  /\ [][HeartbeatTimer =>
          IF /\ activeDocumentInfo # 0
             /\ isWindowFocused
             /\ now - lastActivity < InactivityThreshold
          THEN sbIsTracking' = TRUE
          ELSE /\ sbIsTracking' = FALSE
               /\ UNCHANGED <<sendAtProject, lastHeartbeat, lastFile, nextHb,
                              inflightOne, offlineHeartbeats, queueFile,
                              fetchInFlight>>]_vars

\* the window is focused and a document is active, the threshold has
\* passed since the last interaction, and the timer has stopped the
\* tracking display (a handler or a regain of focus would have started it)
C20_Witness ==
  /\ isWindowFocused
  /\ activeDocumentInfo # 0
  /\ activeEditor # 0
  /\ now - lastActivity >= InactivityThreshold
  /\ sbIsTracking = FALSE

\* the POST of some heartbeat fails in this step and the catch block
\* pushes that heartbeat
FailedAttemptEnqueues ==
  \E h \in HbIds, o \in Outcomes :
    /\ SendOneFail(h, o)
    /\ enqLog' = Append(enqLog, h)
    /\ offlineHeartbeats' = Append(offlineHeartbeats, h)

\* a heartbeat is constructed while isOnline is false and pushed without a
\* request
OfflineShortcutEnqueues ==
  /\ SendHeartbeat
  /\ ~isOnline
  /\ enqLog' = Append(enqLog, nextHb)
  /\ offlineHeartbeats' = Append(offlineHeartbeats, nextHb)

\* no heartbeat was pushed twice
PushedOnce ==
  \A i, j \in 1..Len(enqLog) : enqLog[i] = enqLog[j] => i = j

\* C21 as stated - a heartbeat enters the queue exactly when a delivery
\* attempt for it fails: every failed attempt pushes it once and nothing is
\* pushed without a failed attempt.
C21_EnqueuedOnlyOnFailure ==
  /\ []PushedOnce
  /\ [][(\E h \in HbIds, o \in Outcomes : SendOneFail(h, o)) =>
          FailedAttemptEnqueues]_vars
  /\ [][enqLog' # enqLog => FailedAttemptEnqueues]_vars

\* C21 - a heartbeat enters the queue exactly when a delivery attempt for
\* it fails (401 included) or when it is constructed while isOnline is
\* false, which takes no attempt; either way it is pushed once.
C21_EnqueuedOnFailureOrOffline ==
  /\ []PushedOnce
  /\ [][(\E h \in HbIds, o \in Outcomes : SendOneFail(h, o)) =>
          FailedAttemptEnqueues]_vars
  /\ [][(SendHeartbeat /\ ~isOnline) => OfflineShortcutEnqueues]_vars
  /\ [][enqLog' # enqLog =>
          FailedAttemptEnqueues \/ OfflineShortcutEnqueues]_vars

\* the manager is offline with two heartbeats in the queue and in the
\* file, in the order of their pushes, and no POST in flight: each was
\* pushed by the catch block after its POST failed or by the offline branch
C21_Witness ==
  /\ enqLog = <<1, 2>>
  /\ offlineHeartbeats = <<1, 2>>
  /\ queueFile = <<1, 2>>
  /\ ~isOnline
  /\ inflightOne = {}
  /\ accepted = {}
  /\ batchLog = <<>>

\* a flush that resumes at its guard goes on towards the batch request
FlushGoesOn == SyncGuard /\ syncAtCfg' = syncAtCfg + 1

\* C22 - recovery by a flush: a flush invocation that finds the queue
\* non-empty and a key configured issues a batch request with the head of
\* the queue, in particular from queue = <<hb>> with isOnline false and the
\* server reachable again; when the batch that empties the queue succeeds,
\* the manager is online, unsyncedLocalSeconds is 0 and the daily summary
\* is fetched again.
C22_FlushRecovers ==
  /\ [][(SyncGuard /\ Len(offlineHeartbeats) > 0 /\ apiKey) =>
          FlushGoesOn]_vars
  /\ [][(SyncEnterLoop /\ Len(offlineHeartbeats) > 0 /\ apiKey) =>
          \E b \in batches' \ batches :
            b.hbs = BatchOf(offlineHeartbeats)]_vars
  /\ [][\A b \in batches :
          (SyncBatchOk(b) /\ offlineHeartbeats = <<>>) =>
            /\ offlineHeartbeats' = <<>>
            /\ isOnline'
            /\ unsyncedLocalSeconds' = 0
            /\ fetchInFlight' = FetchStarted]_vars

\* the scenario of C22 alone: one heartbeat queued, the manager offline,
\* the server answering again, and a flush resumes
C22_OfflineFlushSends ==
  [][(SyncGuard /\ Len(offlineHeartbeats) = 1 /\ ~isOnline /\ serverHealthy
        /\ apiKey) => FlushGoesOn]_vars

\* what the code does recover by: once the server answers, a queue held
\* while offline is eventually emptied with the manager online
C22_EventuallyFlushed ==
  (serverHealthy /\ ~isOnline /\ Len(offlineHeartbeats) > 0)
    ~> (isOnline /\ Len(offlineHeartbeats) = 0)

\* C23 - bounded batches: every batch request carries between 1 and
\* BatchSize heartbeats, and they are the first min(BatchSize, length)
\* entries of the queue as it is when the batch is taken, in their order.
C23_BoundedBatches ==
  /\ [](\A b \in batches : Len(b.hbs) >= 1 /\ Len(b.hbs) <= BatchSize)
  /\ [][\A b \in batches' \ batches :
          /\ Len(b.hbs) = Min(BatchSize, Len(offlineHeartbeats))
          /\ Len(b.hbs) >= 1
          /\ \A i \in 1..Len(b.hbs) : b.hbs[i] = offlineHeartbeats[i]]_vars

\* a batch of BatchSize heartbeats is in flight that was cut from a longer
\* queue, whose rest is still queued
C23_Witness ==
  \E b \in batches :
    /\ Len(b.hbs) = BatchSize
    /\ b.lenBefore > BatchSize
    /\ Len(offlineHeartbeats) >= 1

\* C24 - flush loop: when a batch succeeds, the flush that sent it goes on
\* with the next batch, the head of the queue, until the queue is empty;
\* when a batch fails, that flush sends no further batch.
C24_FlushLoop ==
  /\ [][\A b \in batches :
          SyncBatchOk(b) =>
            IF Len(offlineHeartbeats) > 0
            THEN \E nb \in batches' :
                   /\ nb \notin batches
                   /\ nb.hbs = SubSeq(offlineHeartbeats, 1,
                                      Min(BatchSize, Len(offlineHeartbeats)))
                   /\ batches' = (batches \ {b}) \cup {nb}
            ELSE batches' = batches \ {b}]_vars
  /\ [][\A b \in batches, o \in Outcomes :
          SyncBatchFail(b, o) =>
            /\ batches' = batches \ {b}
            /\ syncAtCfg' = syncAtCfg]_vars

\* the batch <<1, 2>> succeeded and the heartbeat queued behind it went
\* out in the next batch, with no other flush under way
C24_Witness ==
  /\ batchLog = <<1, 2>>
  /\ \E b \in batches : b.hbs = <<3>> /\ b.lenBefore = 1
  /\ Cardinality(batches) = 1
  /\ syncAtLog = 0
  /\ syncAtCfg = 0
  /\ offlineHeartbeats = <<>>

\* C25 - every flush finishes even when the server never answers its
\* batch request: a heartbeat in a batch in flight eventually leaves it,
\* acknowledged or put back in the queue as failed.
C25_HungBatchEnds ==
  \A h \in HbIds : (h \in InBatches) ~> (h \notin InBatches)

WindowBlurred == HandleWindowStateChange(FALSE) /\ isWindowFocused

\* the window gets the focus back
WindowRegained == HandleWindowStateChange(TRUE) /\ ~isWindowFocused

\* the accumulator's tick after an interval that the window spent without
\* the focus from its beginning to its end
TickAfterUnfocusedInterval == AccumulatorInterval /\ ~focusedSinceTick

\* C27 - on window blur the monitor is at once not effectively active and
\* the status bar is told to stop tracking; unsyncedLocalSeconds does not
\* grow for time spent unfocused; on focus regain lastActivity is reset to
\* now and the status bar is told to resume tracking.
C27_BlurAndRegain ==
  /\ [][WindowBlurred => ~IsEffectivelyActive' /\ sbIsTracking' = FALSE]_vars
  /\ [][TickAfterUnfocusedInterval =>
          unsyncedLocalSeconds' = unsyncedLocalSeconds]_vars
  /\ [][WindowRegained => lastActivity' = now /\ sbIsTracking' = TRUE]_vars

\* C27, the second sentence alone: a tick adds nothing for an interval
\* that the window spent unfocused
C27_UnfocusedTimeNotCounted ==
  [][TickAfterUnfocusedInterval =>
       unsyncedLocalSeconds' = unsyncedLocalSeconds]_vars

\* C27 as the accumulator implements it: a blur stops the status bar and
\* the monitor, a regain resets lastActivity and starts the status bar,
\* and a tick that finds the window unfocused adds nothing.
C27_BlurRegainAndUnfocusedTick ==
  /\ [][WindowBlurred => ~IsEffectivelyActive' /\ sbIsTracking' = FALSE]_vars
  /\ [][AccumulatorInterval /\ ~isWindowFocused =>
          unsyncedLocalSeconds' = unsyncedLocalSeconds]_vars
  /\ [][WindowRegained => lastActivity' = now /\ sbIsTracking' = TRUE]_vars

\* the window lost the focus, a tick found it unfocused, and it has the
\* focus and the status bar's tracking back
C27_Witness ==
  /\ isWindowFocused /\ sbIsTracking /\ lastActivity = now
  /\ now > StartTime /\ lastTimeAccumulated = now
  /\ ~focusedSinceTick /\ unsyncedLocalSeconds = 0

(* ---------------------------- C28 ------------------------------------- *)
\* a heartbeat is constructed in this step
HeartbeatIsConstructed == nextHb' = nextHb + 1

C28_EditorClosedAtConstruction ==
  [][HeartbeatIsConstructed => activeEditor # 0]_vars

(* ---------------------------- C29 ------------------------------------- *)
\* C29 - whenever no batch request is in flight the queue file holds the
\* in-memory offline queue, element for element and in the same order.
C29_FileMirrorsQueue == batches = {} => queueFile = offlineHeartbeats

\* a batch was acknowledged and the flush step saved the rest, a later
\* heartbeat was enqueued and saved, and no batch is in flight
C29_Witness ==
  /\ batches = {}
  /\ batchLog # <<>>
  /\ offlineHeartbeats # <<>>
  /\ queueFile = offlineHeartbeats

\* C29 without its premise: the file holds the queue at all times.
\* Violated while a batch is in flight: the batch is sliced off the queue
\* in memory and the file is not written before the response.
C29_FileAlwaysMirrorsQueue == queueFile = offlineHeartbeats

(* ---------------------------- C30 ------------------------------------- *)
\* the POST of a single heartbeat is sent in this step
SinglePostSent == \E h \in HbIds : h \in inflightOne' /\ h \notin inflightOne

\* a batch POST is sent in this step
BatchPostSent == \E b \in batches' : b \notin batches

\* a request is answered in this step (a stats GET, a single POST or a
\* batch POST)
ResponseArrives ==
  \/ fetchInFlight' < fetchInFlight
  \/ \E h \in inflightOne : h \notin inflightOne'
  \/ \E b \in batches : b \notin batches'

\* C30 - while isOnline is false no heartbeat POST, single or batch, is
\* sent: a step that sends one leaves isOnline true.
C30_NoPostWhileOffline ==
  [][SinglePostSent \/ BatchPostSent => isOnline']_vars

\* C30 as sendHeartbeat and syncOfflineHeartbeats implement it: no single
\* POST is sent while isOnline is false; a flush that finds isOnline false
\* at its guard returns; a batch POST is sent while isOnline is false only
\* by a flush that had passed the guard before and resumes from its awaits;
\* and isOnline turns to true only in the response to a request.
C30_OfflineSendsOnlyFromResumedFlush ==
  /\ [][SinglePostSent => isOnline /\ isOnline']_vars
  /\ [][FlushGoesOn => isOnline]_vars
  /\ [][BatchPostSent /\ ~isOnline' => SyncEnterLoop]_vars
  /\ [][~isOnline /\ isOnline' => ResponseArrives]_vars

\* No request has been answered 2xx in this run, so isOnline has stayed
\* false since it first turned false; heartbeat 2, which joined the queue
\* when isOnline was false, is in a batch in flight: a flush that had
\* passed its guard sent that batch while isOnline was false.
C30_Witness ==
  /\ ~isOnline
  /\ accepted = {} /\ batchLog = <<>>
  /\ \E b \in batches : 2 \in Range(b.hbs)

(* ---------------------------- C31 ------------------------------------- *)
\* sendHeartbeat returns at a guard (no project name, or no API key)
\* without constructing a heartbeat
SkippedAtGuard == (\E p \in BOOLEAN : SendResume(p)) /\ nextHb' = nextHb

\* C31 - an evaluation that produces no heartbeat because a guard failed
\* leaves lastHeartbeat and lastFile unchanged.  Without an API key every
\* evaluation ends at the guard, so, with no evaluation suspended, the two
\* fields have their initial values.
C31_SkipLeavesGate ==
  (~apiKey /\ sendAtProject = 0) => (lastHeartbeat = 0 /\ lastFile = 0)

\* C31 as sendHeartbeat implements it: a call that passes the gate records
\* the time and the file before its guards, the return at a guard leaves
\* them as recorded, and the next non-forced trigger is gated by them as
\* if a heartbeat had been sent.
C31_SkipMovesGate ==
  /\ [][sendAtProject' = sendAtProject + 1 =>
          lastHeartbeat' = now /\ lastFile' = activeEditor']_vars
  /\ [][SkippedAtGuard => UNCHANGED <<lastHeartbeat, lastFile>>]_vars
  /\ [][NonForcedTrigger /\ ~GateOpen =>
          UNCHANGED <<sendAtProject, lastHeartbeat, lastFile>>]_vars

\* without a key: an evaluation passed the gate and returned at the guard;
\* no heartbeat was ever constructed, and a non-forced trigger for the same
\* file finds the gate shut
C31_Witness ==
  /\ ~apiKey /\ sendAtProject = 0 /\ timestamps = <<>>
  /\ inflightOne = {} /\ accepted = {}
  /\ lastHeartbeat = now /\ lastFile # 0 /\ activeEditor = lastFile
  /\ ~GateOpen

(* ---------------------------- C32 ------------------------------------- *)
\* the call of sendHeartbeat that resumes in this step read the document d
\* at its head
ResumedCallRead(d) ==
  \E i \in 1..Len(sendDocs) :
    sendDocs[i] = d /\ sendDocs' = RemoveAt(sendDocs, i)

\* C32 - every heartbeat describes a single document: the project comes
\* from the document the call read when the trigger was evaluated, the file
\* and the language from activeDocumentInfo at the construction, and the
\* two are the same document.
C32_OneDocumentPerHeartbeat ==
  [][HeartbeatIsConstructed =>
       \A d \in Files : ResumedCallRead(d) => activeDocumentInfo = d]_vars

(* ---------------------------- C33 ------------------------------------- *)
\* the response to a stats request issued before the one whose total was
\* adopted last arrives in this step
OlderResponseArrives ==
  \E n \in 1..MaxFetchIssued : FetchAnswered(n) /\ n < fetchSeq.adopted

\* C33 - with several stats requests in flight the adopted total ends up
\* being the one returned for the request issued last: a response to an
\* older request that arrives later neither overwrites
\* todayLocalTotalSeconds nor resets unsyncedLocalSeconds, and once every
\* request is answered the total is that of the last request.
C33_NewestFetchWins ==
  /\ [][OlderResponseArrives =>
          /\ todayLocalTotalSeconds' = todayLocalTotalSeconds
          /\ unsyncedLocalSeconds' = unsyncedLocalSeconds]_vars
  /\ []((fetchSeq.pending = {} /\ fetchSeq.issued > 0) =>
          todayLocalTotalSeconds = TotalFor(fetchSeq.issued))

(* ---------------------------- C34 ------------------------------------- *)
\* C34 - the status bar never double counts: the seconds it displays are at
\* most the total last set by updateTime plus the seconds elapsed since
\* that call.
C34_NoDoubleCount ==
  DisplaySeconds <= statusBar.totalSeconds + (now - statusBar.updatedAt)

(* ---------------------------- C35 ------------------------------------- *)
\* a step of the accumulator's interval callback
IsAccumulatorTick == lastTimeAccumulated' = now /\ lastTimeAccumulated # now

\* unsyncedLocalSeconds is never negative
C35_NonNegative == unsyncedLocalSeconds >= 0

\* unsyncedLocalSeconds changes only by a tick of the accumulator, which
\* increases it, or by a reset to 0
C35_ChangesByTickOrReset ==
  [][unsyncedLocalSeconds' # unsyncedLocalSeconds
       => \/ IsAccumulatorTick /\ unsyncedLocalSeconds' > unsyncedLocalSeconds
          \/ unsyncedLocalSeconds' = 0]_vars

\* unsyncedLocalSeconds increases only on a tick at which the window is
\* focused and the last interaction is less than the inactivity threshold
\* ago
C35_IncreasesOnlyWhenActive ==
  [][unsyncedLocalSeconds' > unsyncedLocalSeconds
       => /\ IsAccumulatorTick
          /\ isWindowFocused
          /\ now - lastActivity < InactivityThreshold]_vars

\* unsyncedLocalSeconds never exceeds the seconds of the clock since its
\* last reset
C35_WithinElapsedSinceReset ==
  unsyncedLocalSeconds <= now - fetchSeq.resetAt

\* C35 - unsyncedLocalSeconds is never negative, changes only by an
\* accumulator tick (increase) or a reset to 0, increases only on a tick at
\* which the window is focused and the last interaction is less than the
\* inactivity threshold ago, and never exceeds the seconds of the clock
\* elapsed since it was last reset.
C35_UnsyncedInvariants ==
  /\ []C35_NonNegative
  /\ C35_ChangesByTickOrReset
  /\ C35_IncreasesOnlyWhenActive
  /\ []C35_WithinElapsedSinceReset

(* ---------------------------- C36 ------------------------------------- *)
\* nothing is pending: no flush is suspended and no request is in flight
Quiescent ==
  /\ syncAtLog = 0
  /\ syncAtCfg = 0
  /\ batches = {}
  /\ fetchInFlight = 0
  /\ inflightOne = {}

\* a step that is an external event
ExternalEvent == FetchInvoke

\* C36 - bounded cascade: once no further external event occurs, and with
\* every request answered, the internally triggered work (status change,
\* flush, stats request, status change, ...) comes to an end and the system
\* stays quiescent, whatever the server answers.
C36_BoundedCascade ==
  <>[][~ExternalEvent]_vars => <>[]Quiescent

(* ---------------------------- C37 ------------------------------------- *)
\* a step that runs the constructor
ConstructorRuns == disk.phase = "start" /\ disk'.phase = "done"

\* the heartbeats persisted at either path when the constructor starts
Persisted == Range(disk.legacy.hbs) \cup Range(disk.config.hbs)

\* after the constructor the in-memory queue contains every heartbeat that
\* was persisted at the legacy path or at the new path
C37_QueueHoldsPersisted ==
  [][ConstructorRuns => Persisted \subseteq Range(offlineHeartbeats')]_vars

\* the migration never overwrites an existing file at the new path, and
\* removes the legacy file only after its content was written to the new
\* path
C37_NoOverwriteAndRemoveAfterWrite ==
  [][ConstructorRuns =>
       /\ disk.config.exists => queueFile' = disk.config.hbs
       /\ (disk.legacy.exists /\ ~disk'.legacy.exists)
            => queueFile' = disk.legacy.hbs]_vars

\* C37 - queue file migration loses nothing: after the manager is
\* constructed, the in-memory queue contains every heartbeat that was
\* persisted at the legacy path or at the new path; the migration never
\* overwrites an existing file at the new path and removes the legacy file
\* only after its content was written to the new path.
C37_MigrationLosesNothing ==
  /\ C37_QueueHoldsPersisted
  /\ C37_NoOverwriteAndRemoveAfterWrite

====================================================================
